---- MODULE Spec2Model ----
(***************************************************************************)
(* The network dispatcher of spotify-tui (src/network.rs): one task takes  *)
(* IoEvents from a channel, runs the matching handler (remote calls, then  *)
(* short critical sections on the shared App behind a mutex) and clears    *)
(* App.is_loading.                                                         *)
(*                                                                         *)
(* The dispatcher is modelled at the granularity of its suspension points: *)
(* a remote call is issued in one step and answered in another, a lock is  *)
(* acquired in one step and the critical section under it runs (and        *)
(* releases the lock) in the next.  `stack` is the chain of async calls    *)
(* the task is in, innermost first.                                        *)
(***************************************************************************)
EXTENDS Naturals, Sequences, FiniteSets

VARIABLES
  app,          \* the shared App behind Arc<Mutex<App>>
  net,          \* the Network struct (self)
  queue,        \* the channel of IoEvents from the UI to the dispatcher
  stack,        \* the dispatcher's async call chain, innermost frame first
  lock,         \* holder of the App mutex: "free", "net" or "ui"
  outstanding,  \* remote calls issued and not yet answered
  trace,        \* what the command being handled has done so far
  pre,          \* the App as it was when the command being handled was received
  failed,       \* ghost: a remote call of an earlier command failed
  clock,        \* Instant::now(), counted in readings
  sent          \* number of IoEvents the UI has dispatched

vars == <<app, net, queue, stack, lock, outstanding, trace, pre, failed, clock, sent>>

----------------------------------------------------------------------------
(* Bounds *)

MaxCmds == 2

----------------------------------------------------------------------------
(* Option<T>: None is the empty sequence, Some(x) the one-element sequence *)

None == <<>>
Some(x) == <<x>>
IsSome(o) == o # <<>>
Unwrap(o) == o[1]

Last(s) == s[Len(s)]

----------------------------------------------------------------------------
(* Data the UI and the remote service supply *)

T0 == [id |-> None, uri |-> "u0"]
T1 == [id |-> Some("t1"), uri |-> "u1"]
T2 == [id |-> Some("t2"), uri |-> "u2"]

TrackLists == { <<T0, T1>>, <<T1, T2>> }

\* tracks.into_iter().filter_map(|item| item.id).collect()
RECURSIVE TrackIdsOf(_)
TrackIdsOf(tracks) ==
  IF tracks = <<>> THEN <<>>
  ELSE (IF IsSome(Head(tracks).id) THEN <<Unwrap(Head(tracks).id)>> ELSE <<>>)
       \o TrackIdsOf(Tail(tracks))

\* tracks.iter().map(|x| x.uri.clone()).collect()
UrisOf(tracks) == [i \in 1..Len(tracks) |-> tracks[i].uri]

Range(f) == { f[x] : x \in DOMAIN f }

\* What current_user_saved_tracks_contains may answer for ids: whether each id
\* is saved, in the order asked, or, for several ids, that list one entry short.
SavedAnswers(ids) ==
  LET n == Len(ids)
      full == { [i \in 1..n |-> saved[ids[i]]] : saved \in [Range(ids) -> BOOLEAN] }
  IN full \cup (IF n > 1 THEN { SubSeq(a, 1, n - 1) : a \in full } ELSE {})

PlaybackContext(item, shuffle, repeat, volume) ==
  [item |-> item, shuffle_state |-> shuffle, repeat_state |-> repeat,
   volume_percent |-> volume]

\* What current_playback may report: nothing playing an item, an item without
\* an id, an item with an id.
PlaybackContexts ==
  { PlaybackContext(None, FALSE, "off", 30),
    PlaybackContext(Some(T0), TRUE, "track", 60),
    PlaybackContext(Some(T1), FALSE, "context", 60) }

DeviceLists == { <<>>, <<"d1">> }

\* enum RepeatState
RepeatStates == { "off", "context", "track" }

\* Page<PlaylistTrack>.items: the track of an item is an Option
PlaylistPages == { << Some(T0), Some(T1) >>, << Some(T1), None >> }

SearchOps == { "search_track", "search_artist", "search_album", "search_playlist" }

StartPlaybackArgs ==
  { [context_uri |-> Some("ctx"), uris |-> None, offset |-> None],
    [context_uri |-> None, uris |-> Some(<<"u1">>), offset |-> Some(0)],
    [context_uri |-> Some("ctx"), uris |-> Some(<<"u1">>), offset |-> Some(0)],
    [context_uri |-> None, uris |-> None, offset |-> None] }

\* enum IoEvent
IoKinds ==
  { "GetCurrentPlayback", "GetDevices", "GetSearchResults", "SetTracksToTable",
    "GetMadeForYouPlaylistTracks", "GetPlaylistTracks", "GetCurrentSavedTracks",
    "StartPlayback", "Seek", "NextTrack", "PreviousTrack", "Shuffle", "Repeat",
    "PausePlayback", "ChangeVolume", "GetArtist", "GetAlbumTracks",
    "GetRecommendationsForSeed", "GetUser", "ToggleSaveTrack",
    "GetRecommendationsForTrackId", "RefreshAuthentication", "GetPlaylists",
    "UpdateSearchLimits", "GetCurrentUserSavedAlbums", "CurrentUserSavedAlbumDelete",
    "CurrentUserSavedAlbumAdd", "UserUnfollowArtists", "UserFollowArtists",
    "UserFollowPlaylist", "UserUnfollowPlaylist", "MadeForYouSearchAndAdd",
    "GetAudioAnalysis", "GetRecentlyPlayed", "GetFollowedArtists", "GetAlbum",
    "SetDeviceIdInConfig" }

\* The parameters the UI may send with an IoEvent of kind k
IoArgs(k) ==
  CASE k = "SetTracksToTable" -> TrackLists
    [] k = "GetPlaylistTracks" -> { [playlist_id |-> "p1", playlist_offset |-> 0] }
    [] k = "GetMadeForYouPlaylistTracks" ->
         { [playlist_id |-> "p1", made_for_you_offset |-> 0] }
    [] k = "GetSearchResults" -> { [search_term |-> "q"] }
    [] k = "GetCurrentSavedTracks" ->
         { [offset |-> None, should_navigate |-> b] : b \in BOOLEAN }
    [] k = "StartPlayback" -> StartPlaybackArgs
    [] k = "Seek" -> { 1000 }
    [] k = "ChangeVolume" -> { 50 }
    [] k = "Shuffle" -> BOOLEAN
    [] k = "Repeat" -> RepeatStates
    [] k = "GetArtist" ->
         { [artist_id |-> "ar1", input_artist_name |-> n] : n \in {"", "name"} }
    [] k = "GetAlbumTracks" -> { [id |-> i] : i \in {None, Some("al1")} }
    [] k = "GetRecommendationsForSeed" ->
         { [seed_artists |-> None, seed_tracks |-> Some(<<"t1">>), first_track |-> None] }
    [] k \in {"GetRecommendationsForTrackId", "ToggleSaveTrack"} -> { "t1" }
    [] k = "UpdateSearchLimits" ->
         { [large_search_limit |-> 50, small_search_limit |-> 10],
           [large_search_limit |-> 5, small_search_limit |-> 20] }
    [] k \in {"CurrentUserSavedAlbumDelete", "CurrentUserSavedAlbumAdd", "GetAlbum"} ->
         { "al1" }
    [] k \in {"UserUnfollowArtists", "UserFollowArtists"} -> { <<"ar1">> }
    [] k \in {"UserFollowPlaylist", "UserUnfollowPlaylist"} ->
         { [user_id |-> "spotify", playlist_id |-> "p1"] }
    [] k = "MadeForYouSearchAndAdd" -> { "q" }
    [] k = "GetAudioAnalysis" -> { "u1" }
    [] k = "GetFollowedArtists" -> { None }
    [] k = "GetCurrentUserSavedAlbums" -> { None }
    [] k = "SetDeviceIdInConfig" -> { "d2" }
    [] OTHER -> { <<>> }

Io(k, a) == [k |-> k, a |-> a]

----------------------------------------------------------------------------
(* The dispatcher's control state *)

Frame(l, v) == [pc |-> l, val |-> v]
Ev(e, what, arg) == [e |-> e, what |-> what, arg |-> arg]

At(l) == stack # <<>> /\ Head(stack).pc = l
V == Head(stack).val

Goto(f) == stack' = <<f>> \o Tail(stack)
Return == stack' = Tail(stack)
\* f(...).await, then go on at `then`
Await(f, then) == stack' = <<f, then>> \o Tail(stack)

\* The frames that stand at an `app.lock().await`
LockLabels ==
  { "handle_network_event_clear", "handle_error", "get_user_ok", "get_devices_ok",
    "get_current_playback_ok", "current_user_saved_tracks_contains_ok",
    "set_tracks_to_table_lock", "get_playlist_tracks_ok",
    "get_made_for_you_playlist_tracks_ok", "get_search_results_ok",
    "get_current_user_saved_tracks_ok", "start_playback_ok", "shuffle_ok",
    "repeat_ok", "change_volume_ok", "get_artist_ok", "get_album_tracks_ok",
    "get_recommendations_for_seed_ok", "toggle_save_track_deleted",
    "toggle_save_track_added", "get_followed_artists_ok",
    "get_current_user_saved_albums_ok", "made_for_you_search_and_add_ok",
    "get_audio_analysis_ok", "get_current_user_playlists_ok",
    "get_recently_played_ok", "get_album_ok", "set_device_id_in_config_ok" }

\* A remote call is issued; the task is suspended until the answer.
Issue(op, arg) ==
  /\ outstanding' = outstanding \cup {op}
  /\ trace' = Append(trace, Ev("call", op, arg))
  /\ UNCHANGED <<app, net, queue, lock, pre, failed, clock, sent>>

\* The answer to an outstanding call arrives.
Answer(op, ok) ==
  /\ op \in outstanding
  /\ outstanding' = outstanding \ {op}
  /\ trace' = Append(trace, Ev(IF ok THEN "ok" ELSE "err", op, <<>>))
  /\ UNCHANGED <<app, net, queue, lock, pre, failed, clock, sent>>

\* The answer Ok(val) to an outstanding call arrives.
Reply(op, val) ==
  /\ op \in outstanding
  /\ outstanding' = outstanding \ {op}
  /\ trace' = Append(trace, Ev("ok", op, val))
  /\ UNCHANGED <<app, net, queue, lock, pre, failed, clock, sent>>

\* The critical section under a held lock: the writes, then the guard drops.
Write(newapp, fields) ==
  /\ lock = "net"
  /\ app' = newapp
  /\ lock' = "free"
  /\ trace' = Append(trace, Ev("write", "app", fields))
  /\ UNCHANGED <<net, queue, outstanding, pre, failed, sent>>

\* A step that neither calls nor locks
Silent == UNCHANGED <<app, net, queue, lock, outstanding, trace, pre, failed, clock, sent>>

----------------------------------------------------------------------------
(* App (the parts the dispatcher touches) *)

Route(id, block) == [id |-> id, active_block |-> block]

\* ScrollableResultPages::new
Pages0 == [index |-> 0, pages |-> <<>>]

AppDefault ==
  [ is_loading |-> FALSE,
    api_error |-> "",
    user |-> None,
    devices |-> None,
    selected_device_index |-> None,
    navigation_stack |-> << Route("Home", "Empty") >>,
    current_playback_context |-> None,
    instant_since_last_current_playback_poll |-> 0,
    liked_song_ids_set |-> {},
    track_table |-> [tracks |-> <<>>, context |-> None],
    playlist_tracks |-> None,
    made_for_you_tracks |-> None,
    search_results |->
      [tracks |-> None, artists |-> None, albums |-> None, playlists |-> None],
    library |->
      [saved_tracks |-> Pages0, saved_albums |-> Pages0, saved_artists |-> Pages0,
       made_for_you_playlists |-> Pages0],
    artist |-> None,
    selected_album_simplified |-> None,
    album_table_context |-> "Full",
    recommended_tracks |-> <<>>,
    artists |-> <<>>,
    audio_analysis |-> None,
    playlists |-> None,
    selected_playlist_index |-> None,
    recently_played |-> [result |-> None],
    selected_album_full |-> None,
    song_progress_ms |-> 0 ]

\* App::handle_error: the failure is kept for display
App_handle_error(a, e) == [a EXCEPT !.api_error = e]

\* Faulty variant: the route is appended whatever the top route is
App_push_navigation_stack_always(a, id, block) ==
  [a EXCEPT !.navigation_stack = Append(@, Route(id, block))]

\* App::push_navigation_stack: nothing is pushed when the top route is already
\* the target route, else one entry is appended
App_push_navigation_stack(a, id, block) ==
  IF Last(a.navigation_stack).id = id
  THEN a
  ELSE [a EXCEPT !.navigation_stack = Append(@, Route(id, block))]

\* App::get_current_route: the top of the navigation stack
App_get_current_route(a) == Last(a.navigation_stack)

\* App::set_saved_tracks_to_table: the page's tracks go into the track table
App_set_saved_tracks_to_table(a, saved_tracks) ==
  [a EXCEPT !.track_table.tracks = saved_tracks]

\* ScrollableResultPages::add_pages: the page is appended to those kept
add_pages(c, page) == [c EXCEPT !.pages = Append(@, page)]

\* ScrollableResultPages::get_mut_results(None): the position of the page shown,
\* if there is one
get_mut_results(c) == IF c.index < Len(c.pages) THEN Some(c.index + 1) ELSE None

\* App::pop_navigation_stack: the top route is dropped, the first one stays
App_pop_navigation_stack(a) ==
  IF Len(a.navigation_stack) > 1
  THEN [a EXCEPT !.navigation_stack = SubSeq(@, 1, Len(@) - 1)]
  ELSE a

\* App::dispatch: the UI marks the App loading and sends the event
Dispatch ==
  /\ lock = "free"
  /\ sent < MaxCmds
  /\ \E k \in IoKinds : \E a \in IoArgs(k) : queue' = Append(queue, Io(k, a))
  /\ app' = [app EXCEPT !.is_loading = TRUE]
  /\ sent' = sent + 1
  /\ UNCHANGED <<net, stack, lock, outstanding, trace, pre, failed, clock>>

\* The dispatcher's loop: take the next event and handle it
Recv ==
  /\ stack = <<>>
  /\ queue # <<>>
  /\ stack' = << Frame("handle_network_event", Head(queue)) >>
  /\ queue' = Tail(queue)
  /\ trace' = << Ev("recv", Head(queue).k, Head(queue).a) >>
  /\ pre' = app
  /\ failed' = (failed \/ \E i \in 1..Len(trace) : trace[i].e = "err")
  /\ UNCHANGED <<app, net, lock, outstanding, clock, sent>>

\* let mut app = app.lock().await;
app_lock ==
  /\ stack # <<>>
  /\ Head(stack).pc \in LockLabels
  /\ lock = "free"
  /\ lock' = "net"
  /\ UNCHANGED <<app, net, queue, stack, outstanding, trace, pre, failed, clock, sent>>

----------------------------------------------------------------------------
(* Network *)

\* The handler the match of handle_network_event selects
Handler(io) ==
  CASE io.k = "GetUser" -> Frame("get_user", <<>>)
    [] io.k = "GetDevices" -> Frame("get_devices", <<>>)
    [] io.k = "GetCurrentPlayback" -> Frame("get_current_playback", <<>>)
    [] io.k = "SetTracksToTable" -> Frame("set_tracks_to_table", io.a)
    [] io.k = "GetPlaylistTracks" -> Frame("get_playlist_tracks", io.a)
    [] io.k = "GetMadeForYouPlaylistTracks" ->
         Frame("get_made_for_you_playlist_tracks", io.a)
    [] io.k = "GetSearchResults" -> Frame("get_search_results", io.a)
    [] io.k = "GetCurrentSavedTracks" -> Frame("get_current_user_saved_tracks", io.a)
    [] io.k = "StartPlayback" -> Frame("start_playback", io.a)
    [] io.k = "Seek" -> Frame("seek", io.a)
    [] io.k = "NextTrack" -> Frame("next_track", <<>>)
    [] io.k = "PreviousTrack" -> Frame("previous_track", <<>>)
    [] io.k = "Repeat" -> Frame("repeat", io.a)
    [] io.k = "PausePlayback" -> Frame("pause_playback", <<>>)
    [] io.k = "ChangeVolume" -> Frame("change_volume", io.a)
    [] io.k = "Shuffle" -> Frame("shuffle", io.a)
    [] io.k = "GetArtist" -> Frame("get_artist", io.a)
    [] io.k = "GetAlbumTracks" -> Frame("get_album_tracks", io.a)
    [] io.k = "GetRecommendationsForSeed" -> Frame("get_recommendations_for_seed", io.a)
    [] io.k = "GetRecommendationsForTrackId" ->
         Frame("get_recommendations_for_track_id", io.a)
    [] io.k = "ToggleSaveTrack" -> Frame("toggle_save_track", io.a)
    [] io.k = "RefreshAuthentication" -> Frame("refresh_authentication", <<>>)
    [] io.k = "GetPlaylists" -> Frame("get_current_user_playlists", <<>>)
    [] io.k = "UpdateSearchLimits" -> Frame("update_search_limits", io.a)
    [] io.k = "GetCurrentUserSavedAlbums" ->
         Frame("get_current_user_saved_albums", io.a)
    [] io.k = "CurrentUserSavedAlbumDelete" ->
         Frame("current_user_saved_album_delete", io.a)
    [] io.k = "CurrentUserSavedAlbumAdd" -> Frame("current_user_saved_album_add", io.a)
    [] io.k = "UserUnfollowArtists" -> Frame("user_unfollow_artists", io.a)
    [] io.k = "UserFollowArtists" -> Frame("user_follow_artists", io.a)
    [] io.k = "UserFollowPlaylist" -> Frame("user_follow_playlist", io.a)
    [] io.k = "UserUnfollowPlaylist" -> Frame("user_unfollow_playlist", io.a)
    [] io.k = "MadeForYouSearchAndAdd" -> Frame("made_for_you_search_and_add", io.a)
    [] io.k = "GetAudioAnalysis" -> Frame("get_audio_analysis", io.a)
    [] io.k = "GetRecentlyPlayed" -> Frame("get_recently_played", <<>>)
    [] io.k = "GetFollowedArtists" -> Frame("get_followed_artists", io.a)
    [] io.k = "GetAlbum" -> Frame("get_album", io.a)
    [] io.k = "SetDeviceIdInConfig" -> Frame("set_device_id_in_config", io.a)

\* Faulty variant: handle_network_event returns without lines 258-259's write
handle_network_event_no_clear ==
  \/ /\ At("handle_network_event")
     /\ Await(Handler(V), Frame("handle_network_event_clear", <<>>))
     /\ Silent
  \/ /\ At("handle_network_event_clear")
     /\ lock = "net"
     /\ lock' = "free"
     /\ Return
     /\ UNCHANGED <<app, net, queue, outstanding, trace, pre, failed, clock, sent>>

\* Faulty variant: is_loading is cleared before the match instead of after it
handle_network_event_clear_first ==
  /\ At("handle_network_event")
  /\ lock = "free"
  /\ app' = [app EXCEPT !.is_loading = FALSE]
  /\ trace' = Append(trace, Ev("clear", "is_loading", <<>>))
  /\ Goto(Handler(V))
  /\ UNCHANGED <<net, queue, lock, outstanding, pre, failed, clock, sent>>

handle_network_event ==
  \/ /\ At("handle_network_event")
     /\ Await(Handler(V), Frame("handle_network_event_clear", <<>>))
     /\ Silent
  \/ /\ At("handle_network_event_clear")
     /\ lock = "net"
     /\ app' = [app EXCEPT !.is_loading = FALSE]
     /\ lock' = "free"
     /\ trace' = Append(trace, Ev("clear", "is_loading", <<>>))
     /\ Return
     /\ UNCHANGED <<net, queue, outstanding, pre, failed, clock, sent>>

handle_error ==
  /\ At("handle_error")
  /\ lock = "net"
  /\ app' = App_handle_error(app, V)
  /\ lock' = "free"
  /\ trace' = Append(trace, Ev("error", V, <<>>))
  /\ Return
  /\ UNCHANGED <<net, queue, outstanding, pre, failed, clock, sent>>

get_user ==
  \/ /\ At("get_user")
     /\ Issue("current_user", <<>>)
     /\ Goto(Frame("get_user_ret", <<>>))
  \/ /\ At("get_user_ret")
     /\ \/ Answer("current_user", TRUE) /\ Goto(Frame("get_user_ok", "user"))
        \/ Answer("current_user", FALSE) /\ Goto(Frame("handle_error", "current_user"))
  \/ /\ At("get_user_ok")
     /\ Write([app EXCEPT !.user = Some(V)], <<"user">>)
     /\ Return
     /\ UNCHANGED clock

get_devices ==
  \/ /\ At("get_devices")
     /\ Issue("device", <<>>)
     /\ Goto(Frame("get_devices_ret", <<>>))
  \/ /\ At("get_devices_ret")
     /\ \/ \E result \in DeviceLists :
             Answer("device", TRUE) /\ Goto(Frame("get_devices_ok", result))
        \/ Answer("device", FALSE) /\ Return
  \/ /\ At("get_devices_ok")
     /\ LET pushed == App_push_navigation_stack(app, "SelectedDevice", "SelectDevice")
        IN Write(IF V # <<>>
                 THEN [pushed EXCEPT !.devices = Some(V), !.selected_device_index = Some(0)]
                 ELSE pushed,
                 IF V # <<>>
                 THEN <<"navigation_stack", "devices", "selected_device_index">>
                 ELSE <<"navigation_stack">>)
     /\ Return
     /\ UNCHANGED clock

\* Faulty variant: every id asked about is inserted, whatever the answer says
current_user_saved_tracks_contains_insert_only ==
  \/ /\ At("current_user_saved_tracks_contains")
     /\ Issue("current_user_saved_tracks_contains", V.ids)
     /\ Goto(Frame("current_user_saved_tracks_contains_ret", V))
  \/ /\ At("current_user_saved_tracks_contains_ret")
     /\ \/ \E is_saved_vec \in SavedAnswers(V.ids) :
             /\ Reply("current_user_saved_tracks_contains", is_saved_vec)
             /\ IF is_saved_vec = <<>>
                THEN Return
                ELSE Goto(Frame("current_user_saved_tracks_contains_ok",
                                [ids |-> V.ids, is_saved_vec |-> is_saved_vec, i |-> 1]))
        \/ /\ Answer("current_user_saved_tracks_contains", FALSE)
           /\ Goto(Frame("handle_error", "current_user_saved_tracks_contains"))
  \/ /\ At("current_user_saved_tracks_contains_ok")
     /\ Write([app EXCEPT !.liked_song_ids_set = @ \cup {V.ids[V.i]}],
              <<"liked_song_ids_set">>)
     /\ IF V.i < Len(V.is_saved_vec)
        THEN Goto(Frame("current_user_saved_tracks_contains_ok", [V EXCEPT !.i = @ + 1]))
        ELSE Return
     /\ UNCHANGED clock

\* Faulty variant: only the first entry of the response is applied
current_user_saved_tracks_contains_first_only ==
  \/ /\ At("current_user_saved_tracks_contains")
     /\ Issue("current_user_saved_tracks_contains", V.ids)
     /\ Goto(Frame("current_user_saved_tracks_contains_ret", V))
  \/ /\ At("current_user_saved_tracks_contains_ret")
     /\ \/ \E is_saved_vec \in SavedAnswers(V.ids) :
             /\ Reply("current_user_saved_tracks_contains", is_saved_vec)
             /\ IF is_saved_vec = <<>>
                THEN Return
                ELSE Goto(Frame("current_user_saved_tracks_contains_ok",
                                [ids |-> V.ids, is_saved_vec |-> is_saved_vec, i |-> 1]))
        \/ /\ Answer("current_user_saved_tracks_contains", FALSE)
           /\ Goto(Frame("handle_error", "current_user_saved_tracks_contains"))
  \/ /\ At("current_user_saved_tracks_contains_ok")
     /\ LET id == V.ids[V.i]
            is_liked == V.is_saved_vec[V.i]
        IN Write([app EXCEPT !.liked_song_ids_set =
                               IF is_liked THEN @ \cup {id} ELSE @ \ {id}],
                 <<"liked_song_ids_set">>)
     /\ Return
     /\ UNCHANGED clock

current_user_saved_tracks_contains ==
  \/ /\ At("current_user_saved_tracks_contains")
     /\ Issue("current_user_saved_tracks_contains", V.ids)
     /\ Goto(Frame("current_user_saved_tracks_contains_ret", V))
  \/ /\ At("current_user_saved_tracks_contains_ret")
     /\ \/ \E is_saved_vec \in SavedAnswers(V.ids) :
             /\ Reply("current_user_saved_tracks_contains", is_saved_vec)
             /\ IF is_saved_vec = <<>>
                THEN Return
                ELSE Goto(Frame("current_user_saved_tracks_contains_ok",
                                [ids |-> V.ids, is_saved_vec |-> is_saved_vec, i |-> 1]))
        \/ /\ Answer("current_user_saved_tracks_contains", FALSE)
           /\ Goto(Frame("handle_error", "current_user_saved_tracks_contains"))
  \/ /\ At("current_user_saved_tracks_contains_ok")
     /\ LET id == V.ids[V.i]
            is_liked == V.is_saved_vec[V.i]
        IN Write([app EXCEPT !.liked_song_ids_set =
                               IF is_liked THEN @ \cup {id} ELSE @ \ {id}],
                 <<"liked_song_ids_set">>)
     /\ IF V.i < Len(V.is_saved_vec)
        THEN Goto(Frame("current_user_saved_tracks_contains_ok", [V EXCEPT !.i = @ + 1]))
        ELSE Return
     /\ UNCHANGED clock

\* Faulty variant: the snapshot is written before the membership check
get_current_playback_snapshot_first ==
  \/ /\ At("get_current_playback")
     /\ Issue("current_playback", <<>>)
     /\ Goto(Frame("get_current_playback_ret", <<>>))
  \/ /\ At("get_current_playback_ret")
     /\ \/ \E c \in PlaybackContexts :
             /\ Reply("current_playback", Some(c))
             /\ Goto(Frame("get_current_playback_ok", c))
        \/ Reply("current_playback", None) /\ Return
        \/ Answer("current_playback", FALSE) /\ Return
  \/ /\ At("get_current_playback_ok")
     /\ Write([app EXCEPT !.current_playback_context = Some(V),
                          !.instant_since_last_current_playback_poll = clock + 1],
              <<"current_playback_context", "instant_since_last_current_playback_poll">>)
     /\ clock' = clock + 1
     /\ IF IsSome(V.item) /\ IsSome(Unwrap(V.item).id)
        THEN Goto(Frame("current_user_saved_tracks_contains",
                        [ids |-> << Unwrap(Unwrap(V.item).id) >>]))
        ELSE Return

get_current_playback ==
  \/ /\ At("get_current_playback")
     /\ Issue("current_playback", <<>>)
     /\ Goto(Frame("get_current_playback_ret", <<>>))
  \/ /\ At("get_current_playback_ret")
     /\ \/ \E c \in PlaybackContexts :
             /\ Reply("current_playback", Some(c))
             /\ IF IsSome(c.item) /\ IsSome(Unwrap(c.item).id)
                THEN Await(Frame("current_user_saved_tracks_contains",
                                 [ids |-> << Unwrap(Unwrap(c.item).id) >>]),
                           Frame("get_current_playback_ok", c))
                ELSE Goto(Frame("get_current_playback_ok", c))
        \/ Reply("current_playback", None) /\ Return
        \/ Answer("current_playback", FALSE) /\ Return
  \/ /\ At("get_current_playback_ok")
     /\ Write([app EXCEPT !.current_playback_context = Some(V),
                          !.instant_since_last_current_playback_poll = clock + 1],
              <<"current_playback_context", "instant_since_last_current_playback_poll">>)
     /\ clock' = clock + 1
     /\ Return

\* Faulty variant: the tracks are written before the membership check
set_tracks_to_table_tracks_first ==
  \/ /\ At("set_tracks_to_table")
     /\ Goto(Frame("set_tracks_to_table_lock", V))
     /\ Silent
  \/ /\ At("set_tracks_to_table_lock")
     /\ Write([app EXCEPT !.track_table.tracks = V], <<"track_table.tracks">>)
     /\ Goto(Frame("current_user_saved_tracks_contains", [ids |-> TrackIdsOf(V)]))
     /\ UNCHANGED clock

set_tracks_to_table ==
  \/ /\ At("set_tracks_to_table")
     /\ Await(Frame("current_user_saved_tracks_contains", [ids |-> TrackIdsOf(V)]),
              Frame("set_tracks_to_table_lock", V))
     /\ Silent
  \/ /\ At("set_tracks_to_table_lock")
     /\ Write([app EXCEPT !.track_table.tracks = V], <<"track_table.tracks">>)
     /\ Return
     /\ UNCHANGED clock


\* A panic unwinds the dispatcher's task: nothing of it runs again.
Panic == stack' = << Frame("panicked", <<>>) >>

get_playlist_tracks ==
  \/ /\ At("get_playlist_tracks")
     /\ Issue("user_playlist_tracks", <<V.playlist_id, net.large_search_limit, V.playlist_offset>>)
     /\ Goto(Frame("get_playlist_tracks_ret", V))
  \/ /\ At("get_playlist_tracks_ret")
     /\ \/ \E playlist_tracks \in PlaylistPages :
             /\ Answer("user_playlist_tracks", TRUE)
             /\ Await(Frame("set_playlist_tracks_to_table", playlist_tracks),
                      Frame("get_playlist_tracks_ok", playlist_tracks))
        \/ Answer("user_playlist_tracks", FALSE) /\ Return
  \/ /\ At("get_playlist_tracks_ok")
     /\ LET set == [app EXCEPT !.playlist_tracks = Some(V)]
        IN IF App_get_current_route(set).id # "TrackTable"
           THEN Write(App_push_navigation_stack(set, "TrackTable", "TrackTable"),
                      <<"playlist_tracks", "navigation_stack">>)
           ELSE Write(set, <<"playlist_tracks">>)
     /\ Return
     /\ UNCHANGED clock

set_playlist_tracks_to_table ==
  /\ At("set_playlist_tracks_to_table")
  /\ IF \E i \in 1..Len(V) : V[i] = None
     THEN Panic    \* item.track.unwrap()
     ELSE Goto(Frame("set_tracks_to_table", [i \in 1..Len(V) |-> Unwrap(V[i])]))
  /\ Silent

get_made_for_you_playlist_tracks ==
  \/ /\ At("get_made_for_you_playlist_tracks")
     /\ Issue("user_playlist_tracks",
              <<V.playlist_id, net.large_search_limit, V.made_for_you_offset>>)
     /\ Goto(Frame("get_made_for_you_playlist_tracks_ret", V))
  \/ /\ At("get_made_for_you_playlist_tracks_ret")
     /\ \/ \E made_for_you_tracks \in PlaylistPages :
             /\ Answer("user_playlist_tracks", TRUE)
             /\ Await(Frame("set_playlist_tracks_to_table", made_for_you_tracks),
                      Frame("get_made_for_you_playlist_tracks_ok", made_for_you_tracks))
        \/ Answer("user_playlist_tracks", FALSE) /\ Return
  \/ /\ At("get_made_for_you_playlist_tracks_ok")
     /\ LET set == [app EXCEPT !.made_for_you_tracks = Some(V)]
        IN IF App_get_current_route(set).id # "TrackTable"
           THEN Write(App_push_navigation_stack(set, "TrackTable", "TrackTable"),
                      <<"made_for_you_tracks", "navigation_stack">>)
           ELSE Write(set, <<"made_for_you_tracks">>)
     /\ Return
     /\ UNCHANGED clock

\* What a search call answers: search_track a page of tracks, the others a page
SearchAnswers(op) ==
  IF op = "search_track" THEN TrackLists ELSE { <<op, "page">> }

\* Faulty variant: a failed search call is reported and the track table is
\* written all the same
get_search_results_partial ==
  \/ /\ At("get_search_results")
     /\ outstanding' = outstanding \cup SearchOps
     /\ trace' = Append(trace, Ev("call", "search_track",
                                  <<V.search_term, net.small_search_limit>>))
     /\ Goto(Frame("get_search_results_join", <<>>))
     /\ UNCHANGED <<app, net, queue, lock, pre, failed, clock, sent>>
  \/ /\ At("get_search_results_join")
     /\ \E op \in outstanding :
          /\ outstanding' = {}
          /\ trace' = Append(trace, Ev("err", op, <<>>))
          /\ Await(Frame("handle_error", op), Frame("set_tracks_to_table_lock", <<>>))
     /\ UNCHANGED <<app, net, queue, lock, pre, failed, clock, sent>>

get_search_results ==
  \/ /\ At("get_search_results")
     \* the four futures are built, then polled together by try_join!
     /\ outstanding' = outstanding \cup SearchOps
     /\ trace' = trace \o
          << Ev("call", "search_track", <<V.search_term, net.small_search_limit>>),
             Ev("call", "search_artist", <<V.search_term, net.small_search_limit>>),
             Ev("call", "search_album", <<V.search_term, net.small_search_limit>>),
             Ev("call", "search_playlist", <<V.search_term, net.small_search_limit>>) >>
     /\ Goto(Frame("get_search_results_join", [op \in {} |-> <<>>]))
     /\ UNCHANGED <<app, net, queue, lock, pre, failed, clock, sent>>
  \/ /\ At("get_search_results_join")
     /\ \E op \in outstanding :
          \/ \E r \in SearchAnswers(op) :
               LET got == [o \in DOMAIN V \cup {op} |-> IF o = op THEN r ELSE V[o]]
               IN /\ outstanding' = outstanding \ {op}
                  /\ IF DOMAIN got = SearchOps
                     THEN /\ trace' = trace \o
                               << Ev("ok", "search_track", got["search_track"]),
                                  Ev("ok", "search_artist", got["search_artist"]),
                                  Ev("ok", "search_album", got["search_album"]),
                                  Ev("ok", "search_playlist", got["search_playlist"]) >>
                          /\ Await(Frame("set_tracks_to_table", got["search_track"]),
                                   Frame("get_search_results_ok", got))
                     ELSE /\ trace' = trace
                          /\ Goto(Frame("get_search_results_join", got))
          \/ \* the first Err ends the join; the other futures are dropped
             /\ outstanding' = {}
             /\ trace' = Append(trace, Ev("err", op, <<>>))
             /\ Goto(Frame("handle_error", op))
     /\ UNCHANGED <<app, net, queue, lock, pre, failed, clock, sent>>
  \/ /\ At("get_search_results_ok")
     /\ Write([app EXCEPT !.search_results =
                 [tracks |-> Some(V["search_track"]),
                  artists |-> Some(V["search_artist"]),
                  albums |-> Some(V["search_album"]),
                  playlists |-> Some(V["search_playlist"])]],
              <<"search_results.tracks", "search_results.artists",
                "search_results.albums", "search_results.playlists">>)
     /\ Return
     /\ UNCHANGED clock

get_current_user_saved_tracks ==
  \/ /\ At("get_current_user_saved_tracks")
     /\ Issue("current_user_saved_tracks", <<net.large_search_limit, V.offset>>)
     /\ Goto(Frame("get_current_user_saved_tracks_ret", V))
  \/ /\ At("get_current_user_saved_tracks_ret")
     /\ \/ \E saved_tracks \in TrackLists :
             /\ Answer("current_user_saved_tracks", TRUE)
             /\ Goto(Frame("get_current_user_saved_tracks_ok",
                           [saved_tracks |-> saved_tracks,
                            should_navigate |-> V.should_navigate]))
        \/ /\ Answer("current_user_saved_tracks", FALSE)
           /\ Goto(Frame("handle_error", "current_user_saved_tracks"))
  \/ /\ At("get_current_user_saved_tracks_ok")
     /\ LET a1 == App_set_saved_tracks_to_table(app, V.saved_tracks)
            a2 == [a1 EXCEPT !.library.saved_tracks = add_pages(@, V.saved_tracks),
                             !.track_table.context = Some("SavedTracks")]
        IN IF V.should_navigate
           THEN Write(App_push_navigation_stack(a2, "TrackTable", "TrackTable"),
                      <<"track_table.tracks", "library.saved_tracks",
                        "track_table.context", "navigation_stack">>)
           ELSE Write(a2, <<"track_table.tracks", "library.saved_tracks",
                            "track_table.context">>)
     /\ Return
     /\ UNCHANGED clock

\* rspotify's for_position: the offset of a position in the context
for_position(o) == Some([position |-> o])

\* Faulty variant: what was supplied is sent as it is
StartPlaybackTarget_as_supplied(context_uri, uris) ==
  [uris |-> uris, context_uri |-> context_uri]

\* The target start_playback sends: the context uri if one is given, else the
\* uris if given, else neither
StartPlaybackTarget(context_uri, uris) ==
  IF IsSome(context_uri) THEN [uris |-> None, context_uri |-> context_uri]
  ELSE IF IsSome(uris) THEN [uris |-> uris, context_uri |-> None]
  ELSE [uris |-> None, context_uri |-> None]

\* Faulty variant: the call is issued whether or not a device is selected
start_playback_any_device ==
  \/ /\ At("start_playback")
     /\ Issue("start_playback",
              [device_id |-> net.device_id, context_uri |-> V.context_uri,
               uris |-> V.uris, offset |-> V.offset])
     /\ Goto(Frame("start_playback_ret", <<>>))
  \/ /\ At("start_playback_ret")
     /\ \/ /\ Answer("start_playback", TRUE)
           /\ Await(Frame("get_current_playback", <<>>), Frame("start_playback_ok", <<>>))
        \/ /\ Answer("start_playback", FALSE)
           /\ Goto(Frame("handle_error", "start_playback"))
  \/ /\ At("start_playback_ok")
     /\ Write([app EXCEPT !.song_progress_ms = 0], <<"song_progress_ms">>)
     /\ Return
     /\ UNCHANGED clock

\* Faulty variant: after a successful start the progress is reset without the
\* refresh
start_playback_no_refresh ==
  \/ /\ At("start_playback")
     /\ LET target == StartPlaybackTarget(V.context_uri, V.uris)
            offset == IF IsSome(V.offset) THEN for_position(Unwrap(V.offset)) ELSE None
        IN IF IsSome(net.device_id)
           THEN /\ Issue("start_playback",
                         [device_id |-> net.device_id, context_uri |-> target.context_uri,
                          uris |-> target.uris, offset |-> offset])
                /\ Goto(Frame("start_playback_ret", <<>>))
           ELSE /\ Goto(Frame("handle_error", "No device_id selected"))
                /\ Silent
  \/ /\ At("start_playback_ret")
     /\ \/ /\ Answer("start_playback", TRUE)
           /\ Goto(Frame("start_playback_ok", <<>>))
        \/ /\ Answer("start_playback", FALSE)
           /\ Goto(Frame("handle_error", "start_playback"))
  \/ /\ At("start_playback_ok")
     /\ Write([app EXCEPT !.song_progress_ms = 0], <<"song_progress_ms">>)
     /\ Return
     /\ UNCHANGED clock

start_playback ==
  \/ /\ At("start_playback")
     /\ LET target == StartPlaybackTarget(V.context_uri, V.uris)
            offset == IF IsSome(V.offset) THEN for_position(Unwrap(V.offset)) ELSE None
        IN IF IsSome(net.device_id)
           THEN /\ Issue("start_playback",
                         [device_id |-> net.device_id, context_uri |-> target.context_uri,
                          uris |-> target.uris, offset |-> offset])
                /\ Goto(Frame("start_playback_ret", <<>>))
           ELSE /\ Goto(Frame("handle_error", "No device_id selected"))
                /\ Silent
  \/ /\ At("start_playback_ret")
     /\ \/ /\ Answer("start_playback", TRUE)
           /\ Await(Frame("get_current_playback", <<>>), Frame("start_playback_ok", <<>>))
        \/ /\ Answer("start_playback", FALSE)
           /\ Goto(Frame("handle_error", "start_playback"))
  \/ /\ At("start_playback_ok")
     /\ Write([app EXCEPT !.song_progress_ms = 0], <<"song_progress_ms">>)
     /\ Return
     /\ UNCHANGED clock

seek ==
  \/ /\ At("seek")
     /\ IF IsSome(net.device_id)
        THEN /\ Issue("seek_track", <<V, net.device_id>>)
             /\ Goto(Frame("seek_ret", <<>>))
        ELSE /\ Return
             /\ Silent
  \/ /\ At("seek_ret")
     /\ \/ Answer("seek_track", TRUE) /\ Goto(Frame("get_current_playback", <<>>))
        \/ Answer("seek_track", FALSE) /\ Goto(Frame("handle_error", "seek_track"))

next_track ==
  \/ /\ At("next_track")
     /\ Issue("next_track", <<net.device_id>>)
     /\ Goto(Frame("next_track_ret", <<>>))
  \/ /\ At("next_track_ret")
     /\ \/ Answer("next_track", TRUE) /\ Goto(Frame("get_current_playback", <<>>))
        \/ Answer("next_track", FALSE) /\ Goto(Frame("handle_error", "next_track"))

previous_track ==
  \/ /\ At("previous_track")
     /\ Issue("previous_track", <<net.device_id>>)
     /\ Goto(Frame("previous_track_ret", <<>>))
  \/ /\ At("previous_track_ret")
     /\ \/ Answer("previous_track", TRUE) /\ Goto(Frame("get_current_playback", <<>>))
        \/ Answer("previous_track", FALSE) /\ Goto(Frame("handle_error", "previous_track"))

\* Faulty variant: the snapshot gets the state the command was given
shuffle_store_given ==
  \/ /\ At("shuffle")
     /\ Issue("shuffle", <<~V, net.device_id>>)
     /\ Goto(Frame("shuffle_ret", V))
  \/ /\ At("shuffle_ret")
     /\ \/ Answer("shuffle", TRUE) /\ Goto(Frame("shuffle_ok", V))
        \/ Answer("shuffle", FALSE) /\ Goto(Frame("handle_error", "shuffle"))
  \/ /\ At("shuffle_ok")
     /\ IF IsSome(app.current_playback_context)
        THEN Write([app EXCEPT !.current_playback_context[1].shuffle_state = V],
                   <<"current_playback_context.shuffle_state">>)
        ELSE Write(app, <<>>)
     /\ Return
     /\ UNCHANGED clock

shuffle ==
  \/ /\ At("shuffle")
     /\ Issue("shuffle", <<~V, net.device_id>>)
     /\ Goto(Frame("shuffle_ret", V))
  \/ /\ At("shuffle_ret")
     /\ \/ Answer("shuffle", TRUE) /\ Goto(Frame("shuffle_ok", V))
        \/ Answer("shuffle", FALSE) /\ Goto(Frame("handle_error", "shuffle"))
  \/ /\ At("shuffle_ok")
     /\ IF IsSome(app.current_playback_context)
        THEN Write([app EXCEPT !.current_playback_context[1].shuffle_state = ~V],
                   <<"current_playback_context.shuffle_state">>)
        ELSE Write(app, <<>>)
     /\ Return
     /\ UNCHANGED clock

\* Faulty variant: repeat toggles between off and context
next_repeat_state_toggle(repeat_state) ==
  IF repeat_state = "off" THEN "context" ELSE "off"

\* The rotation of repeat: off -> context -> track -> off
next_repeat_state(repeat_state) ==
  CASE repeat_state = "off" -> "context"
    [] repeat_state = "context" -> "track"
    [] repeat_state = "track" -> "off"

repeat ==
  \/ /\ At("repeat")
     /\ Issue("repeat", <<next_repeat_state(V), net.device_id>>)
     /\ Goto(Frame("repeat_ret", next_repeat_state(V)))
  \/ /\ At("repeat_ret")
     /\ \/ Answer("repeat", TRUE) /\ Goto(Frame("repeat_ok", V))
        \/ Answer("repeat", FALSE) /\ Goto(Frame("handle_error", "repeat"))
  \/ /\ At("repeat_ok")
     /\ IF IsSome(app.current_playback_context)
        THEN Write([app EXCEPT !.current_playback_context[1].repeat_state = V],
                   <<"current_playback_context.repeat_state">>)
        ELSE Write(app, <<>>)
     /\ Return
     /\ UNCHANGED clock

pause_playback ==
  \/ /\ At("pause_playback")
     /\ Issue("pause_playback", <<net.device_id>>)
     /\ Goto(Frame("pause_playback_ret", <<>>))
  \/ /\ At("pause_playback_ret")
     /\ \/ Answer("pause_playback", TRUE) /\ Goto(Frame("get_current_playback", <<>>))
        \/ Answer("pause_playback", FALSE) /\ Goto(Frame("handle_error", "pause_playback"))

\* Faulty variant: without a snapshot the volume is stored in a new one
change_volume_creates_snapshot ==
  \/ /\ At("change_volume")
     /\ Issue("volume", <<V, net.device_id>>)
     /\ Goto(Frame("change_volume_ret", V))
  \/ /\ At("change_volume_ret")
     /\ \/ Answer("volume", TRUE) /\ Goto(Frame("change_volume_ok", V))
        \/ Answer("volume", FALSE) /\ Goto(Frame("handle_error", "volume"))
  \/ /\ At("change_volume_ok")
     /\ IF IsSome(app.current_playback_context)
        THEN Write([app EXCEPT !.current_playback_context[1].volume_percent = V],
                   <<"current_playback_context.device.volume_percent">>)
        ELSE Write([app EXCEPT !.current_playback_context =
                                 Some(PlaybackContext(None, FALSE, "off", V))],
                   <<"current_playback_context">>)
     /\ Return
     /\ UNCHANGED clock

change_volume ==
  \/ /\ At("change_volume")
     /\ Issue("volume", <<V, net.device_id>>)
     /\ Goto(Frame("change_volume_ret", V))
  \/ /\ At("change_volume_ret")
     /\ \/ Answer("volume", TRUE) /\ Goto(Frame("change_volume_ok", V))
        \/ Answer("volume", FALSE) /\ Goto(Frame("handle_error", "volume"))
  \/ /\ At("change_volume_ok")
     /\ IF IsSome(app.current_playback_context)
        THEN Write([app EXCEPT !.current_playback_context[1].volume_percent = V],
                   <<"current_playback_context.device.volume_percent">>)
        ELSE Write(app, <<>>)
     /\ Return
     /\ UNCHANGED clock

ArtistJoinOps == { "artist_albums", "artist_top_tracks", "artist_related_artists" }

get_artist ==
  \/ /\ At("get_artist")
     /\ IF V.input_artist_name = ""
        THEN /\ Issue("artist", <<V.artist_id>>)
             /\ Goto(Frame("get_artist_name_ret", V))
        ELSE /\ Goto(Frame("get_artist_join", V.input_artist_name))
             /\ Silent
  \/ /\ At("get_artist_name_ret")
     /\ \/ Answer("artist", TRUE) /\ Goto(Frame("get_artist_join", "full_artist.name"))
        \/ Answer("artist", FALSE) /\ Goto(Frame("get_artist_join", ""))
  \/ /\ At("get_artist_join")
     \* the three futures are polled together by try_join!
     /\ outstanding' = outstanding \cup ArtistJoinOps
     /\ trace' = trace \o
          << Ev("call", "artist_albums", <<net.large_search_limit>>),
             Ev("call", "artist_top_tracks", <<>>),
             Ev("call", "artist_related_artists", <<>>) >>
     /\ Goto(Frame("get_artist_joined", V))
     /\ UNCHANGED <<app, net, queue, lock, pre, failed, clock, sent>>
  \/ /\ At("get_artist_joined")
     /\ \E op \in outstanding :
          \/ /\ outstanding' = outstanding \ {op}
             /\ IF outstanding = {op}
                THEN /\ trace' = trace \o
                          << Ev("ok", "artist_albums", <<>>),
                             Ev("ok", "artist_top_tracks", <<>>),
                             Ev("ok", "artist_related_artists", <<>>) >>
                     /\ Goto(Frame("get_artist_ok", V))
                ELSE /\ trace' = trace
                     /\ Goto(Frame("get_artist_joined", V))
          \/ /\ outstanding' = {}
             /\ trace' = Append(trace, Ev("err", op, <<>>))
             /\ Return
     /\ UNCHANGED <<app, net, queue, lock, pre, failed, clock, sent>>
  \/ /\ At("get_artist_ok")
     /\ Write([app EXCEPT !.artist =
                 Some([artist_name |-> V, albums |-> "albums",
                       related_artists |-> "related_artist.artists",
                       top_tracks |-> "top_tracks.tracks"])],
              <<"artist">>)
     /\ Return
     /\ UNCHANGED clock

get_album_tracks ==
  \/ /\ At("get_album_tracks")
     /\ IF IsSome(V.id)
        THEN /\ Issue("album_track", <<Unwrap(V.id), net.large_search_limit>>)
             /\ Goto(Frame("get_album_tracks_ret", V))
        ELSE /\ Return
             /\ Silent
  \/ /\ At("get_album_tracks_ret")
     /\ \/ \E tracks \in TrackLists :
             /\ Answer("album_track", TRUE)
             /\ Await(Frame("current_user_saved_tracks_contains",
                            [ids |-> TrackIdsOf(tracks)]),
                      Frame("get_album_tracks_ok", [album |-> V, tracks |-> tracks]))
        \/ /\ Answer("album_track", FALSE)
           /\ Goto(Frame("handle_error", "album_track"))
  \/ /\ At("get_album_tracks_ok")
     /\ Write(App_push_navigation_stack(
                [app EXCEPT !.selected_album_simplified = Some(V),
                            !.album_table_context = "Simplified"],
                "AlbumTracks", "AlbumTracks"),
              <<"selected_album_simplified", "album_table_context", "navigation_stack">>)
     /\ Return
     /\ UNCHANGED clock

\* What recommendations answers with, and the full tracks of its uris
RecommendedUris == << "u0", "u2" >>
RecommendedTracks == << T0, T2 >>

\* Faulty variant: the first track is put after the recommended tracks
get_recommendations_for_seed_first_last ==
  \/ /\ At("get_recommendations_for_seed")
     /\ Issue("recommendations", <<V.seed_artists, V.seed_tracks, net.large_search_limit>>)
     /\ Goto(Frame("get_recommendations_for_seed_ret", V))
  \/ /\ At("get_recommendations_for_seed_ret")
     /\ \/ /\ Answer("recommendations", TRUE)
           /\ Await(Frame("extract_recommended_tracks", RecommendedUris),
                    Frame("get_recommendations_for_seed_extracted", V))
        \/ /\ Answer("recommendations", FALSE)
           /\ Goto(Frame("handle_error", "recommendations"))
  \/ /\ At("get_recommendations_for_seed_extracted")
     /\ IF IsSome(V.ret)
        THEN LET recommended_tracks ==
                   IF IsSome(V.first_track)
                   THEN Unwrap(V.ret) \o <<Unwrap(V.first_track)>>
                   ELSE Unwrap(V.ret)
             IN Await(Frame("set_tracks_to_table", recommended_tracks),
                      Frame("get_recommendations_for_seed_play", recommended_tracks))
        ELSE Return
     /\ Silent
  \/ /\ At("get_recommendations_for_seed_play")
     /\ Await(Frame("start_playback",
                    [context_uri |-> None, uris |-> Some(UrisOf(V)), offset |-> Some(0)]),
              Frame("get_recommendations_for_seed_ok", V))
     /\ Silent
  \/ /\ At("get_recommendations_for_seed_ok")
     /\ LET set == [app EXCEPT !.recommended_tracks = V,
                               !.track_table.context = Some("RecommendedTracks")]
        IN IF App_get_current_route(set).id # "Recommendations"
           THEN Write(App_push_navigation_stack(set, "Recommendations", "TrackTable"),
                      <<"recommended_tracks", "track_table.context", "navigation_stack">>)
           ELSE Write(set, <<"recommended_tracks", "track_table.context">>)
     /\ Return
     /\ UNCHANGED clock

get_recommendations_for_seed ==
  \/ /\ At("get_recommendations_for_seed")
     /\ Issue("recommendations", <<V.seed_artists, V.seed_tracks, net.large_search_limit>>)
     /\ Goto(Frame("get_recommendations_for_seed_ret", V))
  \/ /\ At("get_recommendations_for_seed_ret")
     /\ \/ /\ Answer("recommendations", TRUE)
           /\ Await(Frame("extract_recommended_tracks", RecommendedUris),
                    Frame("get_recommendations_for_seed_extracted", V))
        \/ /\ Answer("recommendations", FALSE)
           /\ Goto(Frame("handle_error", "recommendations"))
  \/ /\ At("get_recommendations_for_seed_extracted")
     /\ IF IsSome(V.ret)
        THEN LET recommended_tracks ==
                   IF IsSome(V.first_track)
                   THEN <<Unwrap(V.first_track)>> \o Unwrap(V.ret)
                   ELSE Unwrap(V.ret)
             IN Await(Frame("set_tracks_to_table", recommended_tracks),
                      Frame("get_recommendations_for_seed_play", recommended_tracks))
        ELSE Return
     /\ Silent
  \/ /\ At("get_recommendations_for_seed_play")
     /\ Await(Frame("start_playback",
                    [context_uri |-> None, uris |-> Some(UrisOf(V)), offset |-> Some(0)]),
              Frame("get_recommendations_for_seed_ok", V))
     /\ Silent
  \/ /\ At("get_recommendations_for_seed_ok")
     /\ LET set == [app EXCEPT !.recommended_tracks = V,
                               !.track_table.context = Some("RecommendedTracks")]
        IN IF App_get_current_route(set).id # "Recommendations"
           THEN Write(App_push_navigation_stack(set, "Recommendations", "TrackTable"),
                      <<"recommended_tracks", "track_table.context", "navigation_stack">>)
           ELSE Write(set, <<"recommended_tracks", "track_table.context">>)
     /\ Return
     /\ UNCHANGED clock

\* Return a value to the caller: it finds it in its frame as `ret`
ReturnValue(x) ==
  stack' = << Frame(stack[2].pc,
                    [f \in DOMAIN stack[2].val \cup {"ret"} |->
                       IF f = "ret" THEN x ELSE stack[2].val[f]]) >>
           \o Tail(Tail(stack))

extract_recommended_tracks ==
  \/ /\ At("extract_recommended_tracks")
     /\ Issue("tracks", V)
     /\ Goto(Frame("extract_recommended_tracks_ret", V))
  \/ /\ At("extract_recommended_tracks_ret")
     /\ \/ Reply("tracks", RecommendedTracks) /\ ReturnValue(Some(RecommendedTracks))
        \/ Answer("tracks", FALSE) /\ ReturnValue(None)

get_recommendations_for_track_id ==
  \/ /\ At("get_recommendations_for_track_id")
     /\ Issue("track", <<V>>)
     /\ Goto(Frame("get_recommendations_for_track_id_ret", V))
  \/ /\ At("get_recommendations_for_track_id_ret")
     /\ \/ /\ Reply("track", T1)
           /\ LET track == T1
              IN Goto(Frame("get_recommendations_for_seed",
                            [seed_artists |-> None,
                             seed_tracks |-> IF IsSome(track.id)
                                             THEN Some(<<Unwrap(track.id)>>) ELSE None,
                             first_track |-> Some(track)]))
        \/ Answer("track", FALSE) /\ Return

\* Faulty variant: the track is deleted when the check reports it not saved
toggle_save_track_swapped ==
  \/ /\ At("toggle_save_track")
     /\ Issue("current_user_saved_tracks_contains", <<V>>)
     /\ Goto(Frame("toggle_save_track_ret", V))
  \/ /\ At("toggle_save_track_ret")
     /\ \/ \E saved \in SavedAnswers(<<V>>) \cup { <<>> } :
             /\ "current_user_saved_tracks_contains" \in outstanding
             /\ IF saved # <<>> /\ saved[1] = FALSE
                THEN /\ trace' = trace \o
                          << Ev("ok", "current_user_saved_tracks_contains", saved),
                             Ev("call", "current_user_saved_tracks_delete", <<V>>) >>
                     /\ outstanding' = {"current_user_saved_tracks_delete"}
                     /\ Goto(Frame("toggle_save_track_delete_ret", V))
                ELSE /\ trace' = trace \o
                          << Ev("ok", "current_user_saved_tracks_contains", saved),
                             Ev("call", "current_user_saved_tracks_add", <<V>>) >>
                     /\ outstanding' = {"current_user_saved_tracks_add"}
                     /\ Goto(Frame("toggle_save_track_add_ret", V))
             /\ UNCHANGED <<app, net, queue, lock, pre, failed, clock, sent>>
        \/ /\ Answer("current_user_saved_tracks_contains", FALSE)
           /\ Goto(Frame("handle_error", "current_user_saved_tracks_contains"))
  \/ /\ At("toggle_save_track_delete_ret")
     /\ \/ /\ Answer("current_user_saved_tracks_delete", TRUE)
           /\ Goto(Frame("toggle_save_track_deleted", V))
        \/ /\ Answer("current_user_saved_tracks_delete", FALSE)
           /\ Goto(Frame("handle_error", "current_user_saved_tracks_delete"))
  \/ /\ At("toggle_save_track_add_ret")
     /\ \/ /\ Answer("current_user_saved_tracks_add", TRUE)
           /\ Goto(Frame("toggle_save_track_added", V))
        \/ /\ Answer("current_user_saved_tracks_add", FALSE)
           /\ Goto(Frame("handle_error", "current_user_saved_tracks_add"))
  \/ /\ At("toggle_save_track_deleted")
     /\ Write([app EXCEPT !.liked_song_ids_set = @ \ {V}], <<"liked_song_ids_set">>)
     /\ Return
     /\ UNCHANGED clock
  \/ /\ At("toggle_save_track_added")
     /\ Write([app EXCEPT !.liked_song_ids_set = @ \cup {V}], <<"liked_song_ids_set">>)
     /\ Return
     /\ UNCHANGED clock

toggle_save_track ==
  \/ /\ At("toggle_save_track")
     /\ Issue("current_user_saved_tracks_contains", <<V>>)
     /\ Goto(Frame("toggle_save_track_ret", V))
  \/ /\ At("toggle_save_track_ret")
     /\ \/ \E saved \in SavedAnswers(<<V>>) \cup { <<>> } :
             /\ "current_user_saved_tracks_contains" \in outstanding
             /\ IF saved # <<>> /\ saved[1] = TRUE
                THEN /\ trace' = trace \o
                          << Ev("ok", "current_user_saved_tracks_contains", saved),
                             Ev("call", "current_user_saved_tracks_delete", <<V>>) >>
                     /\ outstanding' = {"current_user_saved_tracks_delete"}
                     /\ Goto(Frame("toggle_save_track_delete_ret", V))
                ELSE /\ trace' = trace \o
                          << Ev("ok", "current_user_saved_tracks_contains", saved),
                             Ev("call", "current_user_saved_tracks_add", <<V>>) >>
                     /\ outstanding' = {"current_user_saved_tracks_add"}
                     /\ Goto(Frame("toggle_save_track_add_ret", V))
             /\ UNCHANGED <<app, net, queue, lock, pre, failed, clock, sent>>
        \/ /\ Answer("current_user_saved_tracks_contains", FALSE)
           /\ Goto(Frame("handle_error", "current_user_saved_tracks_contains"))
  \/ /\ At("toggle_save_track_delete_ret")
     /\ \/ /\ Answer("current_user_saved_tracks_delete", TRUE)
           /\ Goto(Frame("toggle_save_track_deleted", V))
        \/ /\ Answer("current_user_saved_tracks_delete", FALSE)
           /\ Goto(Frame("handle_error", "current_user_saved_tracks_delete"))
  \/ /\ At("toggle_save_track_add_ret")
     /\ \/ /\ Answer("current_user_saved_tracks_add", TRUE)
           /\ Goto(Frame("toggle_save_track_added", V))
        \/ /\ Answer("current_user_saved_tracks_add", FALSE)
           /\ Goto(Frame("handle_error", "current_user_saved_tracks_add"))
  \/ /\ At("toggle_save_track_deleted")
     /\ Write([app EXCEPT !.liked_song_ids_set = @ \ {V}], <<"liked_song_ids_set">>)
     /\ Return
     /\ UNCHANGED clock
  \/ /\ At("toggle_save_track_added")
     /\ Write([app EXCEPT !.liked_song_ids_set = @ \cup {V}], <<"liked_song_ids_set">>)
     /\ Return
     /\ UNCHANGED clock

\* CursorBasedPage<FullArtist>.items as current_user_followed_artists may answer
FollowedArtistPages == { << "ar1", "ar2" >>, << "ar2" >> }

\* Faulty variant: the page fetched takes the place of the pages kept
get_followed_artists_replace ==
  \/ /\ At("get_followed_artists")
     /\ Issue("current_user_followed_artists", <<net.large_search_limit, V>>)
     /\ Goto(Frame("get_followed_artists_ret", V))
  \/ /\ At("get_followed_artists_ret")
     /\ \/ \E saved_artists \in FollowedArtistPages :
             /\ Reply("current_user_followed_artists", saved_artists)
             /\ Goto(Frame("get_followed_artists_ok", saved_artists))
        \/ /\ Answer("current_user_followed_artists", FALSE)
           /\ Goto(Frame("handle_error", "current_user_followed_artists"))
  \/ /\ At("get_followed_artists_ok")
     /\ Write([app EXCEPT !.artists = V,
                          !.library.saved_artists = add_pages(Pages0, V)],
              <<"artists", "library.saved_artists">>)
     /\ Return
     /\ UNCHANGED clock

get_followed_artists ==
  \/ /\ At("get_followed_artists")
     /\ Issue("current_user_followed_artists", <<net.large_search_limit, V>>)
     /\ Goto(Frame("get_followed_artists_ret", V))
  \/ /\ At("get_followed_artists_ret")
     /\ \/ \E saved_artists \in FollowedArtistPages :
             /\ Reply("current_user_followed_artists", saved_artists)
             /\ Goto(Frame("get_followed_artists_ok", saved_artists))
        \/ /\ Answer("current_user_followed_artists", FALSE)
           /\ Goto(Frame("handle_error", "current_user_followed_artists"))
  \/ /\ At("get_followed_artists_ok")
     /\ Write([app EXCEPT !.artists = V,
                          !.library.saved_artists = add_pages(@, V)],
              <<"artists", "library.saved_artists">>)
     /\ Return
     /\ UNCHANGED clock

\* Page<SavedAlbum>.items as current_user_saved_albums may answer
SavedAlbumPages == { <<>>, << "al1" >> }

get_current_user_saved_albums ==
  \/ /\ At("get_current_user_saved_albums")
     /\ Issue("current_user_saved_albums", <<net.large_search_limit, V>>)
     /\ Goto(Frame("get_current_user_saved_albums_ret", V))
  \/ /\ At("get_current_user_saved_albums_ret")
     /\ \/ \E saved_albums \in SavedAlbumPages :
             /\ Answer("current_user_saved_albums", TRUE)
             /\ IF saved_albums # <<>>
                THEN Goto(Frame("get_current_user_saved_albums_ok", saved_albums))
                ELSE Return
        \/ /\ Answer("current_user_saved_albums", FALSE)
           /\ Goto(Frame("handle_error", "current_user_saved_albums"))
  \/ /\ At("get_current_user_saved_albums_ok")
     /\ Write([app EXCEPT !.library.saved_albums = add_pages(@, V)],
              <<"library.saved_albums">>)
     /\ Return
     /\ UNCHANGED clock

current_user_saved_album_delete ==
  \/ /\ At("current_user_saved_album_delete")
     /\ Issue("current_user_saved_albums_delete", <<V>>)
     /\ Goto(Frame("current_user_saved_album_delete_ret", V))
  \/ /\ At("current_user_saved_album_delete_ret")
     /\ \/ /\ Answer("current_user_saved_albums_delete", TRUE)
           /\ Goto(Frame("get_current_user_saved_albums", None))
        \/ /\ Answer("current_user_saved_albums_delete", FALSE)
           /\ Goto(Frame("handle_error", "current_user_saved_albums_delete"))

current_user_saved_album_add ==
  \/ /\ At("current_user_saved_album_add")
     /\ Issue("current_user_saved_albums_add", <<V>>)
     /\ Goto(Frame("current_user_saved_album_add_ret", V))
  \/ /\ At("current_user_saved_album_add_ret")
     /\ \/ /\ Answer("current_user_saved_albums_add", TRUE)
           /\ Return
        \/ /\ Answer("current_user_saved_albums_add", FALSE)
           /\ Goto(Frame("handle_error", "current_user_saved_albums_add"))

user_unfollow_artists ==
  \/ /\ At("user_unfollow_artists")
     /\ Issue("user_unfollow_artists", V)
     /\ Goto(Frame("user_unfollow_artists_ret", V))
  \/ /\ At("user_unfollow_artists_ret")
     /\ \/ /\ Answer("user_unfollow_artists", TRUE)
           /\ Goto(Frame("get_followed_artists", None))
        \/ /\ Answer("user_unfollow_artists", FALSE)
           /\ Goto(Frame("handle_error", "user_unfollow_artists"))

user_follow_artists ==
  \/ /\ At("user_follow_artists")
     /\ Issue("user_follow_artists", V)
     /\ Goto(Frame("user_follow_artists_ret", V))
  \/ /\ At("user_follow_artists_ret")
     /\ \/ /\ Answer("user_follow_artists", TRUE)
           /\ Goto(Frame("get_followed_artists", None))
        \/ /\ Answer("user_follow_artists", FALSE)
           /\ Goto(Frame("handle_error", "user_follow_artists"))

\* Faulty variant: the playlists are re-fetched whether or not the call succeeded
user_follow_playlist_refetch_always ==
  \/ /\ At("user_follow_playlist")
     /\ Issue("user_playlist_follow_playlist", <<V.user_id, V.playlist_id>>)
     /\ Goto(Frame("user_follow_playlist_ret", V))
  \/ /\ At("user_follow_playlist_ret")
     /\ \/ /\ Answer("user_playlist_follow_playlist", TRUE)
           /\ Goto(Frame("get_current_user_playlists", <<>>))
        \/ /\ Answer("user_playlist_follow_playlist", FALSE)
           /\ Goto(Frame("get_current_user_playlists", <<>>))

user_follow_playlist ==
  \/ /\ At("user_follow_playlist")
     /\ Issue("user_playlist_follow_playlist", <<V.user_id, V.playlist_id>>)
     /\ Goto(Frame("user_follow_playlist_ret", V))
  \/ /\ At("user_follow_playlist_ret")
     /\ \/ /\ Answer("user_playlist_follow_playlist", TRUE)
           /\ Goto(Frame("get_current_user_playlists", <<>>))
        \/ /\ Answer("user_playlist_follow_playlist", FALSE)
           /\ Goto(Frame("handle_error", "user_playlist_follow_playlist"))

user_unfollow_playlist ==
  \/ /\ At("user_unfollow_playlist")
     /\ Issue("user_playlist_unfollow", <<V.user_id, V.playlist_id>>)
     /\ Goto(Frame("user_unfollow_playlist_ret", V))
  \/ /\ At("user_unfollow_playlist_ret")
     /\ \/ /\ Answer("user_playlist_unfollow", TRUE)
           /\ Goto(Frame("get_current_user_playlists", <<>>))
        \/ /\ Answer("user_playlist_unfollow", FALSE)
           /\ Goto(Frame("handle_error", "user_playlist_unfollow"))

\* Page<SimplifiedPlaylist>.items as search_playlist may answer for the term
SearchPlaylists(term) ==
  { << [owner |-> "spotify", name |-> term], [owner |-> "someone", name |-> term] >>,
    << [owner |-> "spotify", name |-> "other"] >> }

\* .filter(|playlist| playlist.owner.id == SPOTIFY_ID && playlist.name == search_string)
RECURSIVE filtered_playlists(_, _)
filtered_playlists(items, term) ==
  IF items = <<>> THEN <<>>
  ELSE (IF Head(items).owner = "spotify" /\ Head(items).name = term
        THEN << Head(items) >> ELSE <<>>) \o filtered_playlists(Tail(items), term)

\* Faulty variant: the App is locked before search_playlist is awaited
made_for_you_search_and_add_locked ==
  /\ At("made_for_you_search_and_add")
  /\ lock = "free"
  /\ lock' = "net"
  /\ outstanding' = outstanding \cup {"search_playlist"}
  /\ trace' = Append(trace, Ev("call", "search_playlist", <<V, net.large_search_limit>>))
  /\ Goto(Frame("made_for_you_search_and_add_ret", V))
  /\ UNCHANGED <<app, net, queue, pre, failed, clock, sent>>

made_for_you_search_and_add ==
  \/ /\ At("made_for_you_search_and_add")
     /\ Issue("search_playlist", <<V, net.large_search_limit>>)
     /\ Goto(Frame("made_for_you_search_and_add_ret", V))
  \/ /\ At("made_for_you_search_and_add_ret")
     /\ \/ \E items \in SearchPlaylists(V) :
             /\ Reply("search_playlist", items)
             /\ Goto(Frame("made_for_you_search_and_add_ok", filtered_playlists(items, V)))
        \/ /\ Answer("search_playlist", FALSE)
           /\ Goto(Frame("handle_error", "search_playlist"))
  \/ /\ At("made_for_you_search_and_add_ok")
     /\ LET c == app.library.made_for_you_playlists
            r == get_mut_results(c)
        IN IF c.pages # <<>>
           THEN IF IsSome(r)
                THEN /\ Write([app EXCEPT !.library.made_for_you_playlists.pages[Unwrap(r)] =
                                            @ \o V],
                              <<"library.made_for_you_playlists">>)
                     /\ Return
                ELSE /\ lock = "net"
                     /\ lock' = "free"
                     /\ Panic
                     /\ UNCHANGED <<app, net, queue, outstanding, trace, pre, failed, sent>>
           ELSE /\ Write([app EXCEPT !.library.made_for_you_playlists = add_pages(@, V)],
                         <<"library.made_for_you_playlists">>)
                /\ Return
     /\ UNCHANGED clock

get_audio_analysis ==
  \/ /\ At("get_audio_analysis")
     /\ Issue("audio_analysis", <<V>>)
     /\ Goto(Frame("get_audio_analysis_ret", V))
  \/ /\ At("get_audio_analysis_ret")
     /\ \/ /\ Answer("audio_analysis", TRUE)
           /\ Goto(Frame("get_audio_analysis_ok", V))
        \/ /\ Answer("audio_analysis", FALSE)
           /\ Goto(Frame("handle_error", "audio_analysis"))
  \/ /\ At("get_audio_analysis_ok")
     /\ Write(App_push_navigation_stack([app EXCEPT !.audio_analysis = Some(V)],
                                        "Analysis", "Analysis"),
              <<"audio_analysis", "navigation_stack">>)
     /\ Return
     /\ UNCHANGED clock

\* Page<SimplifiedPlaylist> as current_user_playlists may answer
UserPlaylistPages == { << "p1", "p2" >>, << "p2" >> }

get_current_user_playlists ==
  \/ /\ At("get_current_user_playlists")
     /\ Issue("current_user_playlists", <<net.large_search_limit>>)
     /\ Goto(Frame("get_current_user_playlists_ret", <<>>))
  \/ /\ At("get_current_user_playlists_ret")
     /\ \/ \E p \in UserPlaylistPages :
             /\ Reply("current_user_playlists", p)
             /\ Goto(Frame("get_current_user_playlists_ok", p))
        \/ /\ Answer("current_user_playlists", FALSE)
           /\ Goto(Frame("handle_error", "current_user_playlists"))
  \/ /\ At("get_current_user_playlists_ok")
     /\ Write([app EXCEPT !.playlists = Some(V), !.selected_playlist_index = Some(0)],
              <<"playlists", "selected_playlist_index">>)
     /\ Return
     /\ UNCHANGED clock

get_recently_played ==
  \/ /\ At("get_recently_played")
     /\ Issue("current_user_recently_played", <<net.large_search_limit>>)
     /\ Goto(Frame("get_recently_played_ret", <<>>))
  \/ /\ At("get_recently_played_ret")
     /\ \/ \E result \in TrackLists :
             /\ Answer("current_user_recently_played", TRUE)
             /\ Await(Frame("current_user_saved_tracks_contains",
                            [ids |-> TrackIdsOf(result)]),
                      Frame("get_recently_played_ok", result))
        \/ /\ Answer("current_user_recently_played", FALSE)
           /\ Goto(Frame("handle_error", "current_user_recently_played"))
  \/ /\ At("get_recently_played_ok")
     /\ Write(App_push_navigation_stack([app EXCEPT !.recently_played.result = Some(V)],
                                        "RecentlyPlayed", "RecentlyPlayed"),
              <<"recently_played.result", "navigation_stack">>)
     /\ Return
     /\ UNCHANGED clock

get_album ==
  \/ /\ At("get_album")
     /\ Issue("album", <<V>>)
     /\ Goto(Frame("get_album_ret", V))
  \/ /\ At("get_album_ret")
     /\ \/ /\ Answer("album", TRUE)
           /\ Goto(Frame("get_album_ok", [album |-> V, selected_index |-> 0]))
        \/ /\ Answer("album", FALSE)
           /\ Goto(Frame("handle_error", "album"))
  \/ /\ At("get_album_ok")
     /\ Write(App_push_navigation_stack(
                [app EXCEPT !.selected_album_full = Some(V),
                            !.album_table_context = "Full"],
                "AlbumTracks", "AlbumTracks"),
              <<"selected_album_full", "album_table_context", "navigation_stack">>)
     /\ Return
     /\ UNCHANGED clock

\* ClientConfig::set_device_id: the device is kept in memory and persisted;
\* a failed persistence may come before or after the in-memory assignment
set_device_id(device_id, ok) ==
  IF ok THEN { Some(device_id) } ELSE { net.device_id, Some(device_id) }

\* Faulty variant: the navigation stack is popped before the failure is reported
set_device_id_in_config_pop_on_failure ==
  \/ /\ At("set_device_id_in_config")
     /\ \/ /\ \E d \in set_device_id(V, TRUE) : net' = [net EXCEPT !.device_id = d]
           /\ Goto(Frame("set_device_id_in_config_ok", V))
        \/ /\ \E d \in set_device_id(V, FALSE) : net' = [net EXCEPT !.device_id = d]
           /\ stack' = << Frame("set_device_id_in_config_ok", V),
                          Frame("handle_error", "set_device_id") >> \o Tail(stack)
     /\ UNCHANGED <<app, queue, lock, outstanding, trace, pre, failed, clock, sent>>
  \/ /\ At("set_device_id_in_config_ok")
     /\ lock = "net"
     /\ app' = App_pop_navigation_stack(app)
     /\ lock' = "free"
     /\ trace' = Append(trace, Ev("write", "app", <<"navigation_stack">>))
     /\ Return
     /\ UNCHANGED <<net, queue, outstanding, pre, failed, clock, sent>>

set_device_id_in_config ==
  \/ /\ At("set_device_id_in_config")
     /\ \/ /\ \E d \in set_device_id(V, TRUE) : net' = [net EXCEPT !.device_id = d]
           /\ Goto(Frame("set_device_id_in_config_ok", V))
        \/ /\ \E d \in set_device_id(V, FALSE) : net' = [net EXCEPT !.device_id = d]
           /\ Goto(Frame("handle_error", "set_device_id"))
     /\ UNCHANGED <<app, queue, lock, outstanding, trace, pre, failed, clock, sent>>
  \/ /\ At("set_device_id_in_config_ok")
     /\ lock = "net"
     /\ app' = App_pop_navigation_stack(app)
     /\ lock' = "free"
     /\ trace' = Append(trace, Ev("write", "app", <<"navigation_stack">>))
     /\ Return
     /\ UNCHANGED <<net, queue, outstanding, pre, failed, clock, sent>>

\* The TokenInfo a successful get_token answers with
TokenInfos == { [access_token |-> "token1", expires_in |-> 3600] }

\* get_spotify: the client built from the token and the instant it expires
get_spotify(token_info) ==
  [spotify |-> token_info.access_token,
   token_expiry |-> clock + token_info.expires_in - 10]

\* Faulty variant: a refused refresh drops the expiry instant
refresh_authentication_expiry_dropped ==
  \/ /\ At("refresh_authentication")
     /\ Issue("get_token", <<>>)
     /\ Goto(Frame("refresh_authentication_ret", <<>>))
  \/ /\ At("refresh_authentication_ret")
     /\ "get_token" \in outstanding
     /\ outstanding' = outstanding \ {"get_token"}
     /\ \/ \E new_token_info \in TokenInfos :
             LET new == get_spotify(new_token_info)
             IN /\ net' = [net EXCEPT !.spotify = new.spotify,
                                      !.spotify_token_expiry = new.token_expiry]
                /\ trace' = Append(trace, Ev("ok", "get_token", <<>>))
        \/ /\ trace' = Append(trace, Ev("err", "get_token", <<>>))
           /\ net' = [net EXCEPT !.spotify_token_expiry = 0]
     /\ Return
     /\ UNCHANGED <<app, queue, lock, pre, failed, clock, sent>>

\* IoEvent::RefreshAuthentication arm of handle_network_event
refresh_authentication ==
  \/ /\ At("refresh_authentication")
     /\ Issue("get_token", <<>>)
     /\ Goto(Frame("refresh_authentication_ret", <<>>))
  \/ /\ At("refresh_authentication_ret")
     /\ "get_token" \in outstanding
     /\ outstanding' = outstanding \ {"get_token"}
     /\ \/ \E new_token_info \in TokenInfos :
             LET new == get_spotify(new_token_info)
             IN /\ net' = [net EXCEPT !.spotify = new.spotify,
                                      !.spotify_token_expiry = new.token_expiry]
                /\ trace' = Append(trace, Ev("ok", "get_token", <<>>))
        \/ /\ trace' = Append(trace, Ev("err", "get_token", <<>>))
           /\ UNCHANGED net
     /\ Return
     /\ UNCHANGED <<app, queue, lock, pre, failed, clock, sent>>

\* IoEvent::UpdateSearchLimits arm of handle_network_event
update_search_limits ==
  /\ At("update_search_limits")
  /\ net' = [net EXCEPT !.large_search_limit = V.large_search_limit,
                        !.small_search_limit = V.small_search_limit]
  /\ Return
  /\ UNCHANGED <<app, queue, lock, outstanding, trace, pre, failed, clock, sent>>

----------------------------------------------------------------------------

Init ==
  /\ app = AppDefault
  /\ net \in { [device_id |-> d, large_search_limit |-> 20, small_search_limit |-> 4,
                  spotify |-> "token0", spotify_token_expiry |-> 0]
                : d \in {None, Some("d1")} }
  /\ queue = <<>>
  /\ stack = <<>>
  /\ lock = "free"
  /\ outstanding = {}
  /\ trace = <<>>
  /\ pre = AppDefault
  /\ failed = FALSE
  /\ clock = 0
  /\ sent = 0

Next ==
  \/ Dispatch
  \/ Recv
  \/ app_lock
  \/ handle_network_event
  \/ handle_error
  \/ get_user
  \/ get_devices
  \/ get_current_playback
  \/ current_user_saved_tracks_contains
  \/ set_tracks_to_table
  \/ get_playlist_tracks
  \/ set_playlist_tracks_to_table
  \/ get_made_for_you_playlist_tracks
  \/ get_search_results
  \/ get_current_user_saved_tracks
  \/ start_playback
  \/ seek
  \/ next_track
  \/ previous_track
  \/ shuffle
  \/ repeat
  \/ pause_playback
  \/ change_volume
  \/ get_artist
  \/ get_album_tracks
  \/ get_recommendations_for_seed
  \/ extract_recommended_tracks
  \/ get_recommendations_for_track_id
  \/ toggle_save_track
  \/ get_followed_artists
  \/ get_current_user_saved_albums
  \/ current_user_saved_album_delete
  \/ current_user_saved_album_add
  \/ user_unfollow_artists
  \/ user_follow_artists
  \/ user_follow_playlist
  \/ user_unfollow_playlist
  \/ made_for_you_search_and_add
  \/ get_audio_analysis
  \/ get_current_user_playlists
  \/ get_recently_played
  \/ get_album
  \/ set_device_id_in_config
  \/ refresh_authentication
  \/ update_search_limits

Spec == Init /\ [][Next]_vars

----------------------------------------------------------------------------
(* Playback sessions: up to MaxPlaybackCmds playback commands in a row, on an *)
(* App whose song progress the UI has already advanced                        *)

MaxPlaybackCmds == 3

\* enum IoEvent: the commands that read or patch the playback snapshot
PlaybackKinds ==
  { "GetCurrentPlayback", "StartPlayback", "Shuffle", "Repeat", "ChangeVolume" }

\* App::dispatch, for the playback commands
DispatchPlayback ==
  /\ lock = "free"
  /\ sent < MaxPlaybackCmds
  /\ \E k \in PlaybackKinds : \E a \in IoArgs(k) : queue' = Append(queue, Io(k, a))
  /\ app' = [app EXCEPT !.is_loading = TRUE]
  /\ sent' = sent + 1
  /\ UNCHANGED <<net, stack, lock, outstanding, trace, pre, failed, clock>>

InitPlayback ==
  /\ app \in { [AppDefault EXCEPT !.song_progress_ms = p] : p \in {0, 1000} }
  /\ net \in { [device_id |-> d, large_search_limit |-> 20, small_search_limit |-> 4,
                  spotify |-> "token0", spotify_token_expiry |-> 0]
                : d \in {None, Some("d1")} }
  /\ queue = <<>>
  /\ stack = <<>>
  /\ lock = "free"
  /\ outstanding = {}
  /\ trace = <<>>
  /\ pre = app
  /\ failed = FALSE
  /\ clock = 0
  /\ sent = 0

NextPlayback ==
  \/ DispatchPlayback
  \/ Recv
  \/ app_lock
  \/ handle_network_event
  \/ handle_error
  \/ get_current_playback
  \/ current_user_saved_tracks_contains
  \/ start_playback
  \/ shuffle
  \/ repeat
  \/ change_volume

SpecPlayback == InitPlayback /\ [][NextPlayback]_vars

----------------------------------------------------------------------------
(* One command of any kind, the dispatcher scheduled fairly *)

\* App::dispatch has marked the App loading and sent one event of any kind
InitLive ==
  /\ app = [AppDefault EXCEPT !.is_loading = TRUE]
  /\ net \in { [device_id |-> d, large_search_limit |-> 20, small_search_limit |-> 4,
                  spotify |-> "token0", spotify_token_expiry |-> 0]
                : d \in {None, Some("d1")} }
  /\ \E k \in IoKinds : \E a \in IoArgs(k) : queue = << Io(k, a) >>
  /\ stack = <<>>
  /\ lock = "free"
  /\ outstanding = {}
  /\ trace = <<>>
  /\ pre = AppDefault
  /\ failed = FALSE
  /\ clock = 0
  /\ sent = 1

\* The steps of the dispatcher task: taking an event, an answer of the remote,
\* the grant of the lock, a write
DispatcherStep ==
  \/ Recv
  \/ app_lock
  \/ handle_network_event
  \/ handle_error
  \/ get_user
  \/ get_devices
  \/ get_current_playback
  \/ current_user_saved_tracks_contains
  \/ set_tracks_to_table
  \/ get_playlist_tracks
  \/ set_playlist_tracks_to_table
  \/ get_made_for_you_playlist_tracks
  \/ get_search_results
  \/ get_current_user_saved_tracks
  \/ start_playback
  \/ seek
  \/ next_track
  \/ previous_track
  \/ shuffle
  \/ repeat
  \/ pause_playback
  \/ change_volume
  \/ get_artist
  \/ get_album_tracks
  \/ get_recommendations_for_seed
  \/ extract_recommended_tracks
  \/ get_recommendations_for_track_id
  \/ toggle_save_track
  \/ get_followed_artists
  \/ get_current_user_saved_albums
  \/ current_user_saved_album_delete
  \/ current_user_saved_album_add
  \/ user_unfollow_artists
  \/ user_follow_artists
  \/ user_follow_playlist
  \/ user_unfollow_playlist
  \/ made_for_you_search_and_add
  \/ get_audio_analysis
  \/ get_current_user_playlists
  \/ get_recently_played
  \/ get_album
  \/ set_device_id_in_config
  \/ refresh_authentication
  \/ update_search_limits

NextLive ==
  \/ Recv
  \/ app_lock
  \/ handle_network_event
  \/ handle_error
  \/ get_user
  \/ get_devices
  \/ get_current_playback
  \/ current_user_saved_tracks_contains
  \/ set_tracks_to_table
  \/ get_playlist_tracks
  \/ set_playlist_tracks_to_table
  \/ get_made_for_you_playlist_tracks
  \/ get_search_results
  \/ get_current_user_saved_tracks
  \/ start_playback
  \/ seek
  \/ next_track
  \/ previous_track
  \/ shuffle
  \/ repeat
  \/ pause_playback
  \/ change_volume
  \/ get_artist
  \/ get_album_tracks
  \/ get_recommendations_for_seed
  \/ extract_recommended_tracks
  \/ get_recommendations_for_track_id
  \/ toggle_save_track
  \/ get_followed_artists
  \/ get_current_user_saved_albums
  \/ current_user_saved_album_delete
  \/ current_user_saved_album_add
  \/ user_unfollow_artists
  \/ user_follow_artists
  \/ user_follow_playlist
  \/ user_unfollow_playlist
  \/ made_for_you_search_and_add
  \/ get_audio_analysis
  \/ get_current_user_playlists
  \/ get_recently_played
  \/ get_album
  \/ set_device_id_in_config
  \/ refresh_authentication
  \/ update_search_limits

\* Where the dispatcher stands: every one of its steps moves it
Progress ==
  << Len(queue), Len(trace), lock, Cardinality(outstanding),
     [i \in 1..Len(stack) |-> stack[i].pc] >>

\* The runtime keeps polling the dispatcher task, every remote call returns and
\* the lock is granted when free
SpecLive == InitLive /\ [][NextLive]_vars /\ WF_Progress(DispatcherStep)

----------------------------------------------------------------------------
(* The same navigating command dispatched twice in a row *)

MaxNavigationCmds == 2

\* The commands whose handler pushes a route
NavigationKinds ==
  { "GetPlaylistTracks", "GetMadeForYouPlaylistTracks", "GetRecommendationsForSeed",
    "GetAlbum", "GetAudioAnalysis", "GetRecentlyPlayed", "GetDevices" }

\* App::dispatch of a navigating command; the second dispatch repeats the first
DispatchNavigation ==
  /\ lock = "free"
  /\ sent < MaxNavigationCmds
  /\ \E k \in NavigationKinds : \E a \in IoArgs(k) :
       /\ sent > 0 =>
            LET first == IF queue # <<>> THEN Last(queue)
                         ELSE Io(trace[1].what, trace[1].arg)
            IN k = first.k /\ a = first.a
       /\ queue' = Append(queue, Io(k, a))
  /\ app' = [app EXCEPT !.is_loading = TRUE]
  /\ sent' = sent + 1
  /\ UNCHANGED <<net, stack, lock, outstanding, trace, pre, failed, clock>>

NextNavigation ==
  \/ DispatchNavigation
  \/ Recv
  \/ app_lock
  \/ handle_network_event
  \/ handle_error
  \/ get_devices
  \/ get_current_playback
  \/ current_user_saved_tracks_contains
  \/ set_tracks_to_table
  \/ get_playlist_tracks
  \/ set_playlist_tracks_to_table
  \/ get_made_for_you_playlist_tracks
  \/ start_playback
  \/ get_recommendations_for_seed
  \/ extract_recommended_tracks
  \/ get_audio_analysis
  \/ get_recently_played
  \/ get_album

SpecNavigation == Init /\ [][NextNavigation]_vars


----------------------------------------------------------------------------
(* Properties *)

\* The command being handled, or the last one handled
Cmd == trace[1]
Received == trace # <<>>
\* handle_network_event has returned for the command in trace
Done == stack = <<>> /\ Received
Events(e) == { i \in 1..Len(trace) : trace[i].e = e }
EventsOf(e, what) == { i \in Events(e) : trace[i].what = what }
\* The value the remote answered op with
Response(op) == trace[CHOOSE i \in EventsOf("ok", op) : TRUE].arg
\* The App left as it was, the recorded error and the loading flag apart
Untouched == app = [pre EXCEPT !.api_error = app.api_error, !.is_loading = app.is_loading]

\* C1: whenever handle_network_event returns, whatever the command and whatever
\* its remote calls answered, App.is_loading is false at that moment.
C1_LoadingFalseAtReturn ==
  [][(stack # <<>> /\ stack' = <<>>) => ~app'.is_loading]_vars

\* A command some remote call of which failed has returned, the flag is false
C1_Witness ==
  /\ Done
  /\ Events("err") # {}
  /\ ~app.is_loading

\* C2: the clear of is_loading is the last thing a command does, and it is done
\* exactly once: once it is in the trace the dispatcher has returned and no call
\* is outstanding, no call or write follows it, and a returned command has it.
C2_ClearOnceAndLast ==
  /\ \A i \in Events("clear") : i = Len(trace) /\ stack = <<>> /\ outstanding = {}
  /\ Done => /\ Cardinality(Events("clear")) = 1
             /\ Last(trace).e = "clear"

\* Recommendations, then start_playback, then get_current_playback with its
\* writes, and the clear after all of them
C2_Witness ==
  /\ Done
  /\ EventsOf("call", "recommendations") # {}
  /\ EventsOf("call", "start_playback") # {}
  /\ EventsOf("call", "current_playback") # {}
  /\ Cardinality(Events("write")) >= 3
  /\ Last(trace).e = "clear"

\* C3: the dispatcher never holds the App lock while a remote call of its is
\* outstanding.
C3_NoLockAcrossCall == ~(lock = "net" /\ outstanding # {})

\* The lock is held for the second id of a membership answer, after the call
\* has returned and the lock was released for the first id
C3_Witness ==
  /\ lock = "net"
  /\ At("current_user_saved_tracks_contains_ok")
  /\ V.i = 2
  /\ EventsOf("ok", "current_user_saved_tracks_contains") # {}

\* C4 as stated: a returned command a remote call of which failed has recorded
\* a failure through handle_error.
C4_EveryFailureReported ==
  (Done /\ Events("err") # {}) => Events("error") # {}

\* C5 as stated: a returned command that reported a failure has left the App as
\* it was, the recorded error and the loading flag apart.
C5_FailureWritesNothingElse ==
  (Done /\ Events("error") # {}) => Untouched

\* C6 as stated: once a remote call of a command has failed, every later
\* command is still handled to its end, so the dispatcher is never aborted.
C6_LaterCommandsComplete == failed => ~At("panicked")

\* C6, the part that holds: the command a remote call of which failed is
\* itself never aborted.
C6_FailedCommandNotAborted == Events("err") # {} => ~At("panicked")

\* C7: in GetSearchResults, when one of the four joined search calls fails, the
\* command writes none of the search results, the track table or the liked set,
\* and it records exactly one error.
C7_SearchFailure ==
  (/\ Received
   /\ Cmd.what = "GetSearchResults"
   /\ \E i \in Events("err") : trace[i].what \in SearchOps)
  => /\ Events("write") = {}
     /\ app.search_results = pre.search_results
     /\ app.track_table = pre.track_table
     /\ app.liked_song_ids_set = pre.liked_song_ids_set
     /\ Cardinality(Events("error")) <= 1
     /\ Done => Cardinality(Events("error")) = 1

\* search_album failed while others were still outstanding; the error is recorded
C7_Witness ==
  /\ Done
  /\ Cmd.what = "GetSearchResults"
  /\ EventsOf("err", "search_album") # {}
  /\ app.api_error = "search_album"

\* C8: after a GetSearchResults whose four search calls succeeded, the four
\* result fields hold the four responses, the track table holds the returned
\* tracks, and each returned id the membership response has an entry for is in
\* the liked set iff that entry is true.
C8_SearchSuccess ==
  (/\ Done
   /\ Cmd.what = "GetSearchResults"
   /\ \A op \in SearchOps : EventsOf("ok", op) # {})
  => /\ app.search_results.tracks = Some(Response("search_track"))
     /\ app.search_results.artists = Some(Response("search_artist"))
     /\ app.search_results.albums = Some(Response("search_album"))
     /\ app.search_results.playlists = Some(Response("search_playlist"))
     /\ app.track_table.tracks = Response("search_track")
     /\ EventsOf("ok", "current_user_saved_tracks_contains") # {} =>
          LET ids == TrackIdsOf(Response("search_track"))
              is_saved_vec == Response("current_user_saved_tracks_contains")
          IN \A j \in 1..Len(is_saved_vec) :
               ids[j] \in app.liked_song_ids_set <=> is_saved_vec[j]

\* Two tracks came back, the first reported not saved and the second saved
C8_Witness ==
  /\ Done
  /\ Cmd.what = "GetSearchResults"
  /\ app.search_results.tracks = Some(<<T1, T2>>)
  /\ EventsOf("ok", "current_user_saved_tracks_contains") # {}
  /\ Response("current_user_saved_tracks_contains") = <<FALSE, TRUE>>
  /\ app.liked_song_ids_set = {"t2"}

\* C9: a StartPlayback handled while no device is selected issues no remote
\* call, leaves the playback snapshot and the song progress as they were, and,
\* once returned, has recorded the failure; the loading flag is then false
\* unless the UI has dispatched again.
C9_StartPlaybackNoDevice ==
  (/\ Received
   /\ Cmd.what = "StartPlayback"
   /\ net.device_id = None)
  => /\ Events("call") = {}
     /\ app.current_playback_context = pre.current_playback_context
     /\ app.song_progress_ms = pre.song_progress_ms
     /\ Done => /\ Cardinality(Events("error")) = 1
                /\ app.api_error = "No device_id selected"
                /\ Events("write") = {}
                /\ queue = <<>> => ~app.is_loading

\* StartPlayback with no device, after an earlier command stored a snapshot
C9_Witness ==
  /\ Done
  /\ Cmd.what = "StartPlayback"
  /\ net.device_id = None
  /\ IsSome(pre.current_playback_context)
  /\ app.api_error = "No device_id selected"
  /\ ~app.is_loading

\* enum IoEvent: the playback transport commands
TransportKinds ==
  { "Seek", "NextTrack", "PreviousTrack", "PausePlayback", "Shuffle", "Repeat",
    "ChangeVolume" }

\* C10 as stated: a transport command handled while no device is selected has
\* recorded a failure when it returns.
C10_TransportNoDeviceReported ==
  (/\ Done
   /\ Cmd.what \in TransportKinds
   /\ net.device_id = None)
  => Events("error") # {}

\* C11: the start_playback call never carries both a context uri and a uri
\* list; for a StartPlayback command the context uri supplied is the one sent,
\* with no uri list, and the uri list supplied is sent only when no context uri
\* was supplied.
C11_StartPlaybackTarget ==
  \A i \in EventsOf("call", "start_playback") :
    LET sent_ == trace[i].arg
    IN /\ ~(IsSome(sent_.context_uri) /\ IsSome(sent_.uris))
       /\ Cmd.what = "StartPlayback" =>
            IF IsSome(Cmd.arg.context_uri)
            THEN sent_.context_uri = Cmd.arg.context_uri /\ sent_.uris = None
            ELSE sent_.context_uri = None /\ sent_.uris = Cmd.arg.uris

\* Both a context uri and a uri list were supplied; the context uri alone is sent
C11_Witness ==
  /\ Received
  /\ Cmd.what = "StartPlayback"
  /\ IsSome(Cmd.arg.context_uri)
  /\ IsSome(Cmd.arg.uris)
  /\ \E i \in EventsOf("call", "start_playback") :
       trace[i].arg.context_uri = Some("ctx") /\ trace[i].arg.uris = None

\* The writes of the command that set the App's field
WritesOf(field) == { i \in Events("write") : field \in Range(trace[i].arg) }

\* C12: a StartPlayback whose start call succeeded has, when it returns, issued
\* current_playback and got its answer, and then set song_progress_ms to 0 in a
\* write that comes after the refresh's answer and after every other write of
\* the command; a StartPlayback whose start call failed issues no
\* current_playback and leaves song_progress_ms and the snapshot as they were.
C12_StartPlaybackRefreshThenReset ==
  (Received /\ Cmd.what = "StartPlayback") =>
    /\ (Done /\ EventsOf("ok", "start_playback") # {}) =>
         /\ Cardinality(EventsOf("call", "current_playback")) = 1
         /\ Cardinality(WritesOf("song_progress_ms")) = 1
         /\ app.song_progress_ms = 0
         /\ \A r \in WritesOf("song_progress_ms") :
              /\ \A c \in EventsOf("call", "current_playback") :
                   \E a \in EventsOf("ok", "current_playback")
                            \cup EventsOf("err", "current_playback") : c < a /\ a < r
              /\ \A w \in Events("write") : w <= r
    /\ EventsOf("ok", "start_playback") = {} =>
         /\ EventsOf("call", "current_playback") = {}
         /\ WritesOf("song_progress_ms") = {}
         /\ app.song_progress_ms = pre.song_progress_ms
         /\ app.current_playback_context = pre.current_playback_context

\* The progress stood at 1000; the start call succeeded, the refresh wrote the
\* snapshot, and the progress is 0 at return
C12_Witness ==
  /\ Done
  /\ Cmd.what = "StartPlayback"
  /\ pre.song_progress_ms = 1000
  /\ app.song_progress_ms = 0
  /\ WritesOf("current_playback_context") # {}
  /\ \A w \in WritesOf("current_playback_context") :
       \A r \in WritesOf("song_progress_ms") : w < r

\* The rotation as the specification words it: off -> context -> track -> off
RepeatRotation == [ off |-> "context", context |-> "track", track |-> "off" ]

\* C13: a Repeat(s) command sends the successor of s in the rotation
\* off -> context -> track -> off to the remote, and once the call succeeded
\* and the command returned, an existing snapshot holds that successor as its
\* repeat_state; three applications of the rotation give back the state they
\* started from.
C13_RepeatRotation ==
  /\ \A s \in RepeatStates :
       next_repeat_state(next_repeat_state(next_repeat_state(s))) = s
  /\ (Received /\ Cmd.what = "Repeat") =>
       /\ \A i \in EventsOf("call", "repeat") : trace[i].arg[1] = RepeatRotation[Cmd.arg]
       /\ (Done /\ EventsOf("ok", "repeat") # {} /\ IsSome(pre.current_playback_context)) =>
            /\ IsSome(app.current_playback_context)
            /\ Unwrap(app.current_playback_context).repeat_state = RepeatRotation[Cmd.arg]

\* A Repeat command on a snapshot whose repeat_state was neither the state
\* given nor its successor succeeded, and the snapshot holds the successor
C13_Witness ==
  /\ Done
  /\ Cmd.what = "Repeat"
  /\ Cmd.arg = "context"
  /\ EventsOf("ok", "repeat") # {}
  /\ IsSome(pre.current_playback_context)
  /\ Unwrap(pre.current_playback_context).repeat_state = "off"
  /\ Unwrap(app.current_playback_context).repeat_state = "track"

\* The remote call of a patching command and the snapshot field it patches
PatchCall == [ Shuffle |-> "shuffle", Repeat |-> "repeat", ChangeVolume |-> "volume" ]
PatchedField(c) ==
  [ Shuffle |-> c.shuffle_state, Repeat |-> c.repeat_state,
    ChangeVolume |-> c.volume_percent ]

\* C14: a Shuffle, Repeat or ChangeVolume command never issues current_playback;
\* when its remote call succeeded and a snapshot existed, the snapshot's
\* shuffle_state, repeat_state or volume_percent is, once the command has
\* returned, the value that was sent with the call; when its remote call
\* failed the snapshot is the one the command found.
C14_OptimisticPatch ==
  (Received /\ Cmd.what \in DOMAIN PatchCall) =>
    LET op == PatchCall[Cmd.what]
    IN /\ EventsOf("call", "current_playback") = {}
       /\ (Done /\ EventsOf("ok", op) # {} /\ IsSome(pre.current_playback_context)) =>
            /\ IsSome(app.current_playback_context)
            /\ \A i \in EventsOf("call", op) :
                 PatchedField(Unwrap(app.current_playback_context))[Cmd.what] = trace[i].arg[1]
       /\ EventsOf("err", op) # {} =>
            app.current_playback_context = pre.current_playback_context

\* A ChangeVolume succeeded on a snapshot with another volume, and the snapshot
\* holds the volume sent
C14_Witness ==
  /\ Done
  /\ Cmd.what = "ChangeVolume"
  /\ EventsOf("ok", "volume") # {}
  /\ IsSome(pre.current_playback_context)
  /\ Unwrap(pre.current_playback_context).volume_percent # Cmd.arg
  /\ Unwrap(app.current_playback_context).volume_percent = Cmd.arg
  /\ \E i \in EventsOf("call", "volume") : trace[i].arg[1] = Cmd.arg

\* C15 as stated: when a GetCurrentPlayback command whose current_playback call
\* succeeded has returned, no value patched by an earlier Shuffle, Repeat or
\* ChangeVolume is left: the snapshot, if there is one, is one the remote
\* reports.
C15_NoPatchSurvives ==
  (Done /\ Cmd.what = "GetCurrentPlayback" /\ EventsOf("ok", "current_playback") # {}) =>
    (IsSome(app.current_playback_context) =>
       Unwrap(app.current_playback_context) \in PlaybackContexts)

\* C15, the part that holds: a refresh at which the remote reported a snapshot
\* leaves exactly that snapshot.
C15_RefreshWithSnapshotWins ==
  (Done /\ Cmd.what = "GetCurrentPlayback" /\ EventsOf("ok", "current_playback") # {}
        /\ IsSome(Response("current_playback"))) =>
    app.current_playback_context = Response("current_playback")

\* The route a navigating command pushes and the remote call after whose
\* success it pushes it
NavigationTarget ==
  [ GetPlaylistTracks |-> "TrackTable", GetMadeForYouPlaylistTracks |-> "TrackTable",
    GetRecommendationsForSeed |-> "Recommendations", GetAlbum |-> "AlbumTracks",
    GetAudioAnalysis |-> "Analysis", GetRecentlyPlayed |-> "RecentlyPlayed",
    GetDevices |-> "SelectedDevice" ]
NavigationCall ==
  [ GetPlaylistTracks |-> "user_playlist_tracks",
    GetMadeForYouPlaylistTracks |-> "user_playlist_tracks",
    GetRecommendationsForSeed |-> "tracks", GetAlbum |-> "album",
    GetAudioAnalysis |-> "audio_analysis",
    GetRecentlyPlayed |-> "current_user_recently_played", GetDevices |-> "device" ]

\* C16: a navigating command leaves the navigation stack as it found it when
\* the top route was already its target, and else leaves it as it found it or
\* with the one target entry appended; once its remote call succeeded and it
\* returned, the top route is its target. In a session in which the same
\* navigating command is dispatched again and again from the Home route, the
\* stack never holds more than Home and the target: one entry more than before
\* the first dispatch, however often the command succeeded.
C16_IdempotentPush ==
  (Received /\ Cmd.what \in DOMAIN NavigationTarget) =>
    LET target == NavigationTarget[Cmd.what]
        before == pre.navigation_stack
        now == app.navigation_stack
    IN /\ Last(before).id = target => now = before
       /\ \/ now = before
          \/ Len(now) = Len(before) + 1 /\ SubSeq(now, 1, Len(before)) = before
                                        /\ Last(now).id = target
       /\ (Done /\ EventsOf("ok", NavigationCall[Cmd.what]) # {}) => Last(now).id = target
       /\ Len(now) <= Len(AppDefault.navigation_stack) + 1
       /\ (Done /\ EventsOf("ok", NavigationCall[Cmd.what]) # {}) =>
            Len(now) = Len(AppDefault.navigation_stack) + 1

\* GetAlbum was dispatched twice; the first pushed the album route, the second
\* succeeded as well and returned, and the stack is the one the second found
C16_Witness ==
  /\ sent >= 2
  /\ queue = <<>>
  /\ Done
  /\ Cmd.what = "GetAlbum"
  /\ EventsOf("ok", "album") # {}
  /\ Last(pre.navigation_stack).id = "AlbumTracks"
  /\ \E i \in Events("write") : "navigation_stack" \in Range(trace[i].arg)
  /\ app.navigation_stack = pre.navigation_stack
  /\ Len(app.navigation_stack) = Len(AppDefault.navigation_stack) + 1

\* C17: once a SetTracksToTable command whose membership check succeeded has
\* returned, the check was asked about the ids of the given tracks in their
\* order, and every id the response has an entry for is in the liked set iff
\* that entry is true (so a liked id now reported false is gone); the ids the
\* response has no entry for are liked iff they were before.
C17_SetTracksToTableMembership ==
  (/\ Done
   /\ Cmd.what = "SetTracksToTable"
   /\ EventsOf("ok", "current_user_saved_tracks_contains") # {})
  => LET ids == TrackIdsOf(Cmd.arg)
         is_saved_vec == Response("current_user_saved_tracks_contains")
         answered == { ids[j] : j \in 1..Len(is_saved_vec) }
     IN /\ \A i \in EventsOf("call", "current_user_saved_tracks_contains") :
             trace[i].arg = ids
        /\ Len(is_saved_vec) <= Len(ids)
        /\ \A j \in 1..Len(is_saved_vec) :
             ids[j] \in app.liked_song_ids_set <=> is_saved_vec[j]
        /\ app.liked_song_ids_set \ answered = pre.liked_song_ids_set \ answered

\* Both tracks were liked; the check reported the first saved and the second
\* not, and the second is no longer liked
C17_Witness ==
  /\ Done
  /\ Cmd.what = "SetTracksToTable"
  /\ Cmd.arg = <<T1, T2>>
  /\ pre.liked_song_ids_set = {"t1", "t2"}
  /\ EventsOf("ok", "current_user_saved_tracks_contains") # {}
  /\ Response("current_user_saved_tracks_contains") = <<TRUE, FALSE>>
  /\ app.liked_song_ids_set = {"t1"}

\* The calls of ToggleSaveTrack that change the saved tracks
ToggleCalls == { "current_user_saved_tracks_delete", "current_user_saved_tracks_add" }

\* C18: a ToggleSaveTrack(t) command issues at most one membership check, for
\* exactly t and before anything else, and only after its success one mutating
\* call for t: the delete when the first entry of the response is true, the add
\* otherwise. Once the mutating call succeeded and the command returned, t is
\* liked iff the check did not report it saved, and the other liked ids are
\* as before; when the check or the mutating call failed the liked set is as it
\* was.
C18_ToggleSaveTrack ==
  (Received /\ Cmd.what = "ToggleSaveTrack") =>
    LET t == Cmd.arg
        checks == EventsOf("call", "current_user_saved_tracks_contains")
        mutations == { i \in Events("call") : trace[i].what \in ToggleCalls }
        was_saved == LET r == Response("current_user_saved_tracks_contains")
                     IN r # <<>> /\ r[1]
    IN /\ Cardinality(checks) <= 1
       /\ \A i \in checks : i = 2 /\ trace[i].arg = <<t>>
       /\ Events("call") = checks \cup mutations
       /\ Cardinality(mutations) <= 1
       /\ \A i \in mutations :
            /\ \E c \in EventsOf("ok", "current_user_saved_tracks_contains") : c < i
            /\ trace[i].arg = <<t>>
            /\ trace[i].what = IF was_saved THEN "current_user_saved_tracks_delete"
                                            ELSE "current_user_saved_tracks_add"
       /\ (Done /\ EventsOf("ok", "current_user_saved_tracks_contains") # {}) =>
            Cardinality(mutations) = 1
       /\ (Done /\ \E op \in ToggleCalls : EventsOf("ok", op) # {}) =>
            /\ t \in app.liked_song_ids_set <=> ~was_saved
            /\ app.liked_song_ids_set \ {t} = pre.liked_song_ids_set \ {t}
       /\ Events("err") # {} => app.liked_song_ids_set = pre.liked_song_ids_set

\* The track was liked, the check reported it saved, the delete succeeded and
\* the track is no longer liked
C18_Witness ==
  /\ Done
  /\ Cmd.what = "ToggleSaveTrack"
  /\ Cmd.arg \in pre.liked_song_ids_set
  /\ EventsOf("ok", "current_user_saved_tracks_delete") # {}
  /\ Response("current_user_saved_tracks_contains") = <<TRUE>>
  /\ Cmd.arg \notin app.liked_song_ids_set

\* The mutating call of a follow command and the call that re-fetches the list
FollowCall ==
  [ UserFollowArtists |-> "user_follow_artists",
    UserUnfollowArtists |-> "user_unfollow_artists",
    UserFollowPlaylist |-> "user_playlist_follow_playlist",
    UserUnfollowPlaylist |-> "user_playlist_unfollow" ]
RefetchCall ==
  [ UserFollowArtists |-> "current_user_followed_artists",
    UserUnfollowArtists |-> "current_user_followed_artists",
    UserFollowPlaylist |-> "current_user_playlists",
    UserUnfollowPlaylist |-> "current_user_playlists" ]

\* C19: a UserFollowArtists, UserUnfollowArtists, UserFollowPlaylist or
\* UserUnfollowPlaylist command issues its mutating call first and once; the
\* list is re-fetched only after that call succeeded, and is re-fetched once
\* before the command returns; the App is written only after the re-fetch
\* succeeded and then holds the list the re-fetch answered; when the mutating
\* call failed no re-fetch is issued, and without a successful re-fetch the
\* lists are as they were.
C19_FollowThenRefetch ==
  (Received /\ Cmd.what \in DOMAIN FollowCall) =>
    LET mutation == FollowCall[Cmd.what]
        refetch == RefetchCall[Cmd.what]
        artists_ == refetch = "current_user_followed_artists"
    IN /\ EventsOf("call", mutation) \subseteq {2}
       /\ Events("call") = EventsOf("call", mutation) \cup EventsOf("call", refetch)
       /\ Cardinality(EventsOf("call", refetch)) <= 1
       /\ \A r \in EventsOf("call", refetch) : \E m \in EventsOf("ok", mutation) : m < r
       /\ (Done /\ EventsOf("ok", mutation) # {}) => EventsOf("call", refetch) # {}
       /\ EventsOf("err", mutation) # {} => EventsOf("call", refetch) = {}
       /\ \A w \in Events("write") : \E r \in EventsOf("ok", refetch) : r < w
       /\ (Done /\ EventsOf("ok", refetch) # {}) =>
            IF artists_
            THEN app.artists = Response(refetch)
            ELSE app.playlists = Some(Response(refetch))
       /\ EventsOf("ok", refetch) = {} =>
            /\ app.artists = pre.artists
            /\ app.playlists = pre.playlists
            /\ app.library = pre.library

\* ar1 and ar2 were followed; the unfollow of ar1 succeeded, the re-fetch
\* answered ar2 alone, and that is the list the App holds
C19_Witness ==
  /\ Done
  /\ Cmd.what = "UserUnfollowArtists"
  /\ pre.artists = << "ar1", "ar2" >>
  /\ EventsOf("ok", "user_unfollow_artists") # {}
  /\ EventsOf("ok", "current_user_followed_artists") # {}
  /\ Response("current_user_followed_artists") = << "ar2" >>
  /\ app.artists = << "ar2" >>

\* The commands that end in get_recommendations_for_seed
RecommendationKinds == { "GetRecommendationsForSeed", "GetRecommendationsForTrackId" }

\* The first track get_recommendations_for_seed is given by the command
FirstTrack ==
  IF Cmd.what = "GetRecommendationsForSeed"
  THEN Cmd.arg.first_track
  ELSE Some(Response("track"))

\* The times start_playback was gone through: with a device it issued its call,
\* without one it reported that none is selected
PlaybackStarts ==
  EventsOf("call", "start_playback") \cup EventsOf("error", "No device_id selected")

\* C20: in a command that goes through get_recommendations_for_seed, once the
\* recommendations call and the track resolution both succeeded and the command
\* has returned, track_table.tracks is the resolved tracks in the order of the
\* response, preceded by the first track if one was given, and start_playback
\* was gone through exactly once, after the write of the tracks; it is entered
\* with no context uri, offset 0 and the uris of that list in order, and its
\* remote call, issued when a device is selected, carries just these. When the
\* recommendations call or the track resolution failed, start_playback is
\* never gone through.
C20_RecommendationsThenPlay ==
  (Received /\ Cmd.what \in RecommendationKinds) =>
    /\ (EventsOf("ok", "recommendations") # {} /\ EventsOf("ok", "tracks") # {}) =>
         LET resolved == Response("tracks")
             tracks == IF IsSome(FirstTrack) THEN <<Unwrap(FirstTrack)>> \o resolved
                       ELSE resolved
         IN /\ At("start_playback") =>
                 /\ V = [context_uri |-> None, uris |-> Some(UrisOf(tracks)),
                         offset |-> Some(0)]
                 /\ app.track_table.tracks = tracks
                 /\ PlaybackStarts = {}
            /\ \A i \in EventsOf("call", "start_playback") :
                 /\ trace[i].arg.context_uri = None
                 /\ trace[i].arg.uris = Some(UrisOf(tracks))
                 /\ trace[i].arg.offset = for_position(0)
                 /\ \E w \in WritesOf("track_table.tracks") : w < i
            /\ Cardinality(PlaybackStarts) <= 1
            /\ Done => /\ app.track_table.tracks = tracks
                       /\ Cardinality(PlaybackStarts) = 1
                       /\ IsSome(net.device_id) => EventsOf("call", "start_playback") # {}
    /\ (EventsOf("ok", "recommendations") = {} \/ EventsOf("ok", "tracks") = {}) =>
         /\ PlaybackStarts = {}
         /\ ~At("start_playback")
         /\ app.track_table.tracks = pre.track_table.tracks

\* A first track was given, both calls succeeded, the table holds the first
\* track and then the resolved ones, and playback was started with their uris
C20_Witness ==
  /\ Done
  /\ Cmd.what = "GetRecommendationsForTrackId"
  /\ EventsOf("ok", "recommendations") # {}
  /\ EventsOf("ok", "tracks") # {}
  /\ app.track_table.tracks = <<T1>> \o RecommendedTracks
  /\ \E i \in EventsOf("call", "start_playback") :
       trace[i].arg.uris = Some(<< "u1", "u0", "u2" >>)
  /\ EventsOf("ok", "start_playback") # {}

\* The step in which get_token answered: with a token, or with none
TokenGranted == At("refresh_authentication_ret") /\ Last(trace').e = "ok"
TokenRefused == At("refresh_authentication_ret") /\ Last(trace').e = "err"

\* C21: the client credential and the expiry instant change only in the step
\* of a RefreshAuthentication in which get_token answered with a token, and
\* then both are replaced by what get_spotify makes of that token; in every
\* other step, the one in which get_token answered with none included, both
\* are as before, and that failing step returns to the dispatcher's loop
\* without a recorded error and without aborting.
C21_CredentialReplacedTogether ==
  [][ /\ TokenGranted =>
           \E token_info \in TokenInfos :
             /\ net'.spotify = get_spotify(token_info).spotify
             /\ net'.spotify_token_expiry = get_spotify(token_info).token_expiry
      /\ ~TokenGranted =>
           /\ net'.spotify = net.spotify
           /\ net'.spotify_token_expiry = net.spotify_token_expiry
      /\ TokenRefused =>
           /\ stack' = Tail(stack)
           /\ app' = app
           /\ queue' = queue
    ]_vars

\* An earlier refresh replaced the credential; this one was refused, has
\* returned, and the dispatcher still holds the replaced credential and expiry
C21_Witness ==
  /\ Done
  /\ Cmd.what = "RefreshAuthentication"
  /\ EventsOf("err", "get_token") # {}
  /\ \E token_info \in TokenInfos :
       /\ net.spotify = token_info.access_token
       /\ net.spotify_token_expiry = get_spotify(token_info).token_expiry
  /\ net.spotify # "token0"

\* The items of a paginated collection, page after page
RECURSIVE Flatten(_)
Flatten(pages) == IF pages = <<>> THEN <<>> ELSE Head(pages) \o Flatten(Tail(pages))

PaginatedCollections ==
  { "saved_tracks", "saved_albums", "saved_artists", "made_for_you_playlists" }

\* The page the dispatcher's step hands to the collection, if the step is the
\* locked write of a handler that adds one
PageAdded(c) ==
  IF lock # "net" THEN <<>>
  ELSE IF c = "saved_tracks" /\ At("get_current_user_saved_tracks_ok") THEN V.saved_tracks
  ELSE IF c = "saved_albums" /\ At("get_current_user_saved_albums_ok") THEN V
  ELSE IF c = "saved_artists" /\ At("get_followed_artists_ok") THEN V
  ELSE IF c = "made_for_you_playlists" /\ At("made_for_you_search_and_add_ok") THEN V
  ELSE <<>>

SearchCalls == { i \in Events("call") : trace[i].what \in SearchOps }

\* C23 as stated: the page size the four calls of a GetSearchResults command
\* carry is strictly smaller than the page size the list-view fetches use, and
\* the four calls carry the query of the command and one page size.
C23_SearchPageSmaller ==
  (Received /\ Cmd.what = "GetSearchResults") =>
    \A i \in SearchCalls :
      /\ trace[i].arg[2] < net.large_search_limit
      /\ trace[i].arg[1] = Cmd.arg.search_term
      /\ \A j \in SearchCalls : trace[j].arg[2] = trace[i].arg[2]

\* C23, the part that holds: the four search calls of one command carry the
\* query of the command and the same page size, the dispatcher's small limit.
C23_SearchCallsAlike ==
  (Received /\ Cmd.what = "GetSearchResults") =>
    /\ Cardinality(SearchCalls) \in {0, Cardinality(SearchOps)}
    /\ \A i \in SearchCalls :
         /\ trace[i].arg = << Cmd.arg.search_term, net.small_search_limit >>

\* C24 as stated: whenever the loading flag is false, no dispatched command is
\* still queued or being handled.
C24_NotLoadingMeansIdle ==
  ~app.is_loading => (queue = <<>> /\ stack = <<>>)

\* C24, the part that holds: the dispatcher clears the flag only in the last
\* step of a command, so while a command is being handled the flag is false
\* only if an earlier command's clear made it so and the UI has not dispatched
\* since: the command in hand never clears it before its own end.
C24_ClearOnlyAtCommandEnd ==
  [][ (app.is_loading /\ ~app'.is_loading) =>
        (At("handle_network_event_clear") /\ stack' = <<>>) ]_vars

\* A frame of the membership check is on the dispatcher's stack
MembershipPending ==
  \/ "current_user_saved_tracks_contains" \in outstanding
  \/ \E i \in 1..Len(stack) :
       stack[i].pc \in { "current_user_saved_tracks_contains",
                         "current_user_saved_tracks_contains_ret",
                         "current_user_saved_tracks_contains_ok" }

\* C25: in a SetTracksToTable command the track table holds the list of before
\* until the command's one write of it, and that write comes after the
\* membership check was answered and after every write of the liked set: once
\* the new list is there no membership write of the command is pending, so no
\* reader sees the new list before the membership update.
C25_MembershipBeforeTracks ==
  (Received /\ Cmd.what = "SetTracksToTable") =>
    /\ WritesOf("track_table.tracks") = {} =>
         app.track_table.tracks = pre.track_table.tracks
    /\ Cardinality(WritesOf("track_table.tracks")) <= 1
    /\ \A w \in WritesOf("track_table.tracks") :
         /\ app.track_table.tracks = Cmd.arg
         /\ ~MembershipPending
         /\ \A l \in WritesOf("liked_song_ids_set") : l < w
         /\ \E a \in EventsOf("ok", "current_user_saved_tracks_contains")
                     \cup EventsOf("err", "current_user_saved_tracks_contains") : a < w

\* The lock is free between two acquisitions of a SetTracksToTable command: the
\* liked set already has the answer for the first id while the second id's
\* write is pending and the track table still holds the list of before
C25_Witness ==
  /\ lock = "free"
  /\ Received
  /\ Cmd.what = "SetTracksToTable"
  /\ Cmd.arg = <<T1, T2>>
  /\ At("current_user_saved_tracks_contains_ok")
  /\ V.i = 2
  /\ V.is_saved_vec = <<TRUE, TRUE>>
  /\ app.liked_song_ids_set = pre.liked_song_ids_set \cup {"t1"}
  /\ "t2" \notin app.liked_song_ids_set
  /\ app.track_table.tracks = pre.track_table.tracks
  /\ app.track_table.tracks # Cmd.arg

\* The membership checks the command has issued and their answers
MembershipCalls == EventsOf("call", "current_user_saved_tracks_contains")
MembershipAnswers ==
  EventsOf("ok", "current_user_saved_tracks_contains")
    \cup EventsOf("err", "current_user_saved_tracks_contains")

\* The writes of the command that set the last-polled instant
PollWrites == WritesOf("instant_since_last_current_playback_poll")

\* C26: in a GetCurrentPlayback command, when current_playback answered a
\* context whose item has an id, one membership check is issued for just that
\* id, and its answer and every write of the liked set come before the write of
\* the snapshot; when the item is missing or has no id no check is issued. The
\* snapshot and the last-polled instant are written in one and the same write,
\* at most once, and the command returns only after it; when the call failed
\* or answered no context there is no such write and both are as they were.
C26_CheckThenSnapshot ==
  (Received /\ Cmd.what = "GetCurrentPlayback") =>
    /\ WritesOf("current_playback_context") = PollWrites
    /\ Cardinality(PollWrites) <= 1
    /\ (EventsOf("ok", "current_playback") # {} /\ IsSome(Response("current_playback"))) =>
         LET c == Unwrap(Response("current_playback"))
             with_id == IsSome(c.item) /\ IsSome(Unwrap(c.item).id)
         IN /\ ~with_id => MembershipCalls = {}
            /\ \A m \in MembershipCalls : trace[m].arg = << Unwrap(Unwrap(c.item).id) >>
            /\ Cardinality(MembershipCalls) <= 1
            /\ \A w \in PollWrites :
                 /\ with_id => \E a \in MembershipAnswers : a < w
                 /\ \A l \in WritesOf("liked_song_ids_set") : l < w
                 /\ app.current_playback_context = Some(c)
                 /\ app.instant_since_last_current_playback_poll = clock
                 /\ ~MembershipPending
            /\ Done => PollWrites # {}
    /\ (EventsOf("ok", "current_playback") = {} \/ Response("current_playback") = None) =>
         /\ PollWrites = {}
         /\ MembershipCalls = {}
    /\ PollWrites = {} =>
         /\ app.current_playback_context = pre.current_playback_context
         /\ app.instant_since_last_current_playback_poll
              = pre.instant_since_last_current_playback_poll

\* The remote reported a context playing T1; the check for t1 answered saved,
\* t1 became liked, and then snapshot and instant were written together
C26_Witness ==
  /\ Done
  /\ Cmd.what = "GetCurrentPlayback"
  /\ EventsOf("ok", "current_user_saved_tracks_contains") # {}
  /\ Response("current_user_saved_tracks_contains") = <<TRUE>>
  /\ \E m \in MembershipCalls : trace[m].arg = << "t1" >>
  /\ "t1" \notin pre.liked_song_ids_set
  /\ "t1" \in app.liked_song_ids_set
  /\ IsSome(app.current_playback_context)
  /\ Unwrap(app.current_playback_context).item = Some(T1)
  /\ app.instant_since_last_current_playback_poll
       > pre.instant_since_last_current_playback_poll

\* C27 as stated: under fair scheduling every dispatched command is taken from
\* the queue and handled to its end, and the loading flag is then cleared.
C27_EveryCommandCompletes ==
  (queue # <<>> \/ stack # <<>>) ~> (queue = <<>> /\ stack = <<>> /\ ~app.is_loading)

\* C27, the part that holds: the dispatcher never waits for a lock it holds.
\* Whenever it stands at an acquisition with the lock taken, it is the holder
\* and its next step is the write that drops the lock; and as long as it has
\* not been aborted and has something to do, one of its steps is enabled.
C27_NoSelfDeadlock ==
  /\ lock = "net" => (stack # <<>> /\ Head(stack).pc \in LockLabels)
  /\ ((queue # <<>> \/ stack # <<>>) /\ ~At("panicked")) => ENABLED DispatcherStep

\* C27, the part that holds: under fair scheduling a command that is not
\* aborted is handled to its end and the loading flag is then cleared.
C27_CompletesUnlessAborted ==
  (queue # <<>> \/ stack # <<>>)
    ~> ((queue = <<>> /\ stack = <<>> /\ ~app.is_loading) \/ At("panicked"))

\* C27, the part that holds: every step of the dispatcher moves it on (it never
\* spins in place), so a fairly scheduled dispatcher cannot stay where it is.
C27_EveryStepMoves ==
  [][ Progress' # Progress ]_vars

\* C28 as stated: a command whose remote calls were answered successfully is
\* handled to its end, the dispatcher task is never aborted.
C28_SuccessfulResponseNeverAborts ==
  (Received /\ Events("ok") # {} /\ Events("err") = {}) => ~At("panicked")

\* C28, the part that holds: the dispatcher is aborted by nothing but the page
\* of playlist items of GetPlaylistTracks and GetMadeForYouPlaylistTracks; a
\* MadeForYouSearchAndAdd on a collection that already has pages is not aborted.
C28_AbortOnlyOnPlaylistPage ==
  At("panicked") =>
    /\ Cmd.what \in {"GetPlaylistTracks", "GetMadeForYouPlaylistTracks"}
    /\ EventsOf("ok", "user_playlist_tracks") # {}

\* A second MadeForYouSearchAndAdd has appended to the page already there
C28_MadeForYouAppended ==
  /\ Done
  /\ Cmd.what = "MadeForYouSearchAndAdd"
  /\ pre.library.made_for_you_playlists.pages # <<>>
  /\ EventsOf("ok", "search_playlist") # {}
  /\ Len(app.library.made_for_you_playlists.pages) = 1
  /\ Len(app.library.made_for_you_playlists.pages[1])
       > Len(pre.library.made_for_you_playlists.pages[1])

\* The snapshot c with the field that command kind k patches taken from d
Unpatched(c, d, k) ==
  CASE k = "Shuffle" -> [c EXCEPT !.shuffle_state = d.shuffle_state]
    [] k = "Repeat" -> [c EXCEPT !.repeat_state = d.repeat_state]
    [] k = "ChangeVolume" -> [c EXCEPT !.volume_percent = d.volume_percent]

\* C29: while and after a Shuffle, Repeat or ChangeVolume command none of whose
\* calls failed is handled, the App is the one the command found, apart from
\* the loading flag and, when a snapshot existed, that snapshot's shuffle_state,
\* repeat_state or volume_percent respectively; when no snapshot existed none
\* is created.
C29_PatchFrame ==
  (Received /\ Cmd.what \in DOMAIN PatchCall /\ Events("err") = {}) =>
    /\ IsSome(app.current_playback_context) = IsSome(pre.current_playback_context)
    /\ [app EXCEPT !.is_loading = pre.is_loading,
                   !.current_playback_context = pre.current_playback_context] = pre
    /\ IsSome(pre.current_playback_context) =>
         Unpatched(Unwrap(app.current_playback_context),
                   Unwrap(pre.current_playback_context), Cmd.what)
           = Unwrap(pre.current_playback_context)

\* A Repeat succeeded on a snapshot and changed its repeat_state, all the rest
\* of the App being as before
C29_Witness ==
  /\ Done
  /\ Cmd.what = "Repeat"
  /\ EventsOf("ok", "repeat") # {}
  /\ IsSome(pre.current_playback_context)
  /\ IsSome(Unwrap(pre.current_playback_context).item)
  /\ Unwrap(app.current_playback_context).repeat_state
       # Unwrap(pre.current_playback_context).repeat_state
  /\ Unwrap(app.current_playback_context).shuffle_state
       = Unwrap(pre.current_playback_context).shuffle_state
  /\ app.instant_since_last_current_playback_poll
       = pre.instant_since_last_current_playback_poll

\* A ChangeVolume succeeded when there was no snapshot, and there is none
C29_WitnessNoSnapshot ==
  /\ Done
  /\ Cmd.what = "ChangeVolume"
  /\ EventsOf("ok", "volume") # {}
  /\ pre.current_playback_context = None
  /\ app.current_playback_context = None

\* The remote calls that carry the selected device, and the device call i carries
DeviceCalls ==
  { "start_playback", "seek_track", "next_track", "previous_track", "shuffle",
    "repeat", "pause_playback", "volume" }
CallDevice(i) ==
  IF trace[i].what = "start_playback" THEN trace[i].arg.device_id
  ELSE trace[i].arg[Len(trace[i].arg)]

\* What holds of a SetDeviceIdInConfig that has returned, and of the commands
\* that use the device
DeviceSelected ==
  /\ (Done /\ Cmd.what = "SetDeviceIdInConfig") =>
       IF Events("error") = {}
       THEN /\ net.device_id = Some(Cmd.arg)
            /\ [app EXCEPT !.is_loading = pre.is_loading] = App_pop_navigation_stack(pre)
            /\ EventsOf("write", "app") # {}
       ELSE /\ app.api_error = "set_device_id"
            /\ app.navigation_stack = pre.navigation_stack
  /\ (Received /\ Cmd.what # "SetDeviceIdInConfig") =>
       \A i \in Events("call") :
         trace[i].what \in DeviceCalls => CallDevice(i) = net.device_id
  /\ (Done /\ Cmd.what = "StartPlayback" /\ IsSome(net.device_id)) =>
       /\ EventsOf("call", "start_playback") # {}
       /\ EventsOf("error", "No device_id selected") = {}

\* C30: a SetDeviceIdInConfig(d) whose persistence succeeded has popped the
\* navigation stack once, recorded no error and left d as the device; the device
\* changes in no other command, so every later playback call carries d and a
\* following StartPlayback issues its call; when persistence failed the failure
\* is recorded and the navigation stack is the one the command found.
C30_DeviceSelected ==
  [][ /\ net'.device_id # net.device_id => At("set_device_id_in_config")
      /\ DeviceSelected' ]_vars

\* A StartPlayback that found the device d2 selected by an earlier
\* SetDeviceIdInConfig with no failure recorded, and issued its call with d2
C30_Witness ==
  /\ Done
  /\ Cmd.what = "StartPlayback"
  /\ pre.api_error = AppDefault.api_error
  /\ app.api_error = AppDefault.api_error
  /\ \E i \in EventsOf("call", "start_playback") : trace[i].arg.device_id = Some("d2")

\* A SetDeviceIdInConfig succeeded on a stack of two routes and left one
C30_WitnessPopped ==
  /\ Done
  /\ Cmd.what = "SetDeviceIdInConfig"
  /\ Events("error") = {}
  /\ Len(pre.navigation_stack) = 2
  /\ Len(app.navigation_stack) = 1

\* A SetDeviceIdInConfig failed on a stack of two routes, which is still there
C30_WitnessFailed ==
  /\ Done
  /\ Cmd.what = "SetDeviceIdInConfig"
  /\ Events("error") # {}
  /\ Len(pre.navigation_stack) = 2
  /\ app.navigation_stack = pre.navigation_stack
  /\ app.api_error = "set_device_id"

====
